---- MODULE Spec2Model ----
(***************************************************************************)
(* Model of the schema-driven form synthesis of src/lib/schema-parser.ts:  *)
(* parseInputSchema, getSchemaDefaults and validateInput, with the helpers *)
(* they call; of the model page and its PredictionForm                     *)
(* (src/app/models/[owner]/[name]/page.tsx, src/unnamed/part_005); and of  *)
(* the ranking engine (src/unnamed/part_016).                              *)
(*                                                                         *)
(* Representation.                                                         *)
(*  - A JS object (a JSONSchema node, a FormField) is a function from the  *)
(*    keys that hold a defined value to those values; a key holding        *)
(*    `undefined` is not in the domain (no read in the source tells the    *)
(*    two apart).                                                          *)
(*  - A JS string the code inspects (names, titles, descriptions, string   *)
(*    values) is a sequence of one-character strings.  `type` and `format` *)
(*    are only compared for equality and stay TLA+ strings.                *)
(*  - A JS value of type unknown (default, const, enum members, input      *)
(*    values) is a record [t, n, s]: t is the typeof tag, n the number     *)
(*    (or 0/1 for a boolean), s the string.                                *)
(*  - A value that may be null/undefined is a sequence of length 0 or 1.   *)
(***************************************************************************)
EXTENDS Integers, Sequences, FiniteSets, TLC

VARIABLES schema, input, called, fields, defaults, validation

\* the model page and the prediction form it renders
VARIABLES isLoading, model, inputSchema, initialValues, cloneFetch,
          values, edited, isSubmitting, posted

parserVars == <<schema, input, called, fields, defaults, validation>>

pageVars == <<isLoading, model, inputSchema, initialValues, cloneFetch,
              values, edited, isSubmitting, posted>>

\* the ranking engine: the clock Date.now() reads, the record scored and the
\* calls of calculateModelScore on it, the array and query a ranking call is
\* given, the relevances it computed, what it returns, and whether that is
\* the array it was given
VARIABLES clock, subject, calls, models, query, scored, result, returnsInput

rankVars == <<clock, subject, calls, models, query, scored, result, returnsInput>>

\* one call of fetchWithRetry: the loop counter, the requests sent, the
\* responses received, where the call stands and how it ended
VARIABLES attempt, sent, responses, phase, outcome

retryVars == <<attempt, sent, responses, phase, outcome>>

\* the state of one useInfiniteModels hook, with its requests in flight
VARIABLE hook

hookVars == <<hook>>

\* the model page's prediction display, with its requests and timers
VARIABLE polling

pollVars == <<polling>>

\* the prediction store and the route handlers under way
VARIABLE store

storeVars == <<store>>

laterVars == <<retryVars, hookVars, pollVars, storeVars>>

vars == <<parserVars, pageVars, rankVars, laterVars>>

(***************************************************************************)
(* Characters and strings                                                  *)
(***************************************************************************)
LowerSeq ==
  <<"a","b","c","d","e","f","g","h","i","j","k","l","m",
    "n","o","p","q","r","s","t","u","v","w","x","y","z">>

UpperSeq ==
  <<"A","B","C","D","E","F","G","H","I","J","K","L","M",
    "N","O","P","Q","R","S","T","U","V","W","X","Y","Z">>

DigitSeq == <<"0","1","2","3","4","5","6","7","8","9">>

Range(f) == {f[i] : i \in DOMAIN f}

LowerChars == Range(LowerSeq)

UpperChars == Range(UpperSeq)

DigitChars == Range(DigitSeq)

\* \w of a JS regular expression
WordChars == LowerChars \cup UpperChars \cup DigitChars \cup {"_"}

\* \s as far as the modelled alphabet goes
SpaceChars == {" "}

IndexIn(seq, c) == CHOOSE i \in DOMAIN seq : seq[i] = c

toLowerChar(c) == IF c \in UpperChars THEN LowerSeq[IndexIn(UpperSeq, c)] ELSE c

toUpperChar(c) == IF c \in LowerChars THEN UpperSeq[IndexIn(LowerSeq, c)] ELSE c

toLowerCase(s) == [i \in 1..Len(s) |-> toLowerChar(s[i])]

includes(s, kw) ==
  \E i \in 0..(Len(s) - Len(kw)) : SubSeq(s, i + 1, i + Len(kw)) = kw

\* s.replace(/[_-]/g, ' ')
replaceSeparators(s) ==
  [i \in 1..Len(s) |-> IF s[i] \in {"_", "-"} THEN " " ELSE s[i]]

\* s.replace(/([a-z])([A-Z])/g, '$1 $2')
RECURSIVE splitCamelCase(_)
splitCamelCase(s) ==
  IF Len(s) < 2 THEN s
  ELSE IF s[1] \in LowerChars /\ s[2] \in UpperChars
       THEN <<s[1], " ">> \o splitCamelCase(Tail(s))
       ELSE <<s[1]>> \o splitCamelCase(Tail(s))

\* s.replace(/\b\w/g, char => char.toUpperCase())
capitalizeWords(s) ==
  [i \in 1..Len(s) |->
     IF s[i] \in WordChars /\ (i = 1 \/ s[i - 1] \notin WordChars)
     THEN toUpperChar(s[i]) ELSE s[i]]

RECURSIVE trimStart(_)
trimStart(s) ==
  IF s # <<>> /\ Head(s) \in SpaceChars THEN trimStart(Tail(s)) ELSE s

RECURSIVE trimEnd(_)
trimEnd(s) ==
  IF s # <<>> /\ s[Len(s)] \in SpaceChars
  THEN trimEnd(SubSeq(s, 1, Len(s) - 1)) ELSE s

trim(s) == trimEnd(trimStart(s))

formatLabel(name) ==
  trim(capitalizeWords(splitCamelCase(replaceSeparators(name))))

formatEnumLabel(value) ==
  trim(splitCamelCase(replaceSeparators(value)))

(***************************************************************************)
(* JS values                                                               *)
(***************************************************************************)
Num(n) == [t |-> "number", n |-> n, s |-> <<>>]

Str(s) == [t |-> "string", n |-> 0, s |-> s]

Bool(b) == [t |-> "boolean", n |-> IF b THEN 1 ELSE 0, s |-> <<>>]

Null == [t |-> "object", n |-> 0, s |-> <<>>]

RECURSIVE digitsOf(_)
digitsOf(n) ==
  IF n < 10 THEN <<DigitSeq[n + 1]>>
  ELSE digitsOf(n \div 10) \o <<DigitSeq[(n % 10) + 1]>>

\* String(value)
String(v) ==
  CASE v.t = "string" -> v.s
    [] v.t = "number" -> IF v.n < 0 THEN <<"-">> \o digitsOf(0 - v.n) ELSE digitsOf(v.n)
    [] v.t = "boolean" -> IF v.n = 1 THEN <<"t","r","u","e">> ELSE <<"f","a","l","s","e">>
    [] OTHER -> <<"n","u","l","l">>

(***************************************************************************)
(* JS objects                                                              *)
(***************************************************************************)
Has(o, k) == k \in DOMAIN o

EmptyObject == [k \in {} |-> 0]

\* { ...a, ...b }
Spread(a, b) ==
  [k \in (DOMAIN a) \cup (DOMAIN b) |-> IF k \in DOMAIN b THEN b[k] ELSE a[k]]

\* { ...o, k1: undefined, k2: undefined }
Unset(o, keys) == [k \in (DOMAIN o) \ keys |-> o[k]]

\* { ...o, k: v }
With(o, k, v) == [j \in (DOMAIN o) \cup {k} |-> IF j = k THEN v ELSE o[j]]

\* Array.prototype.find, over the indices of the elements that satisfy the
\* callback: the first of them, 0 if there is none
firstIndex(indices) ==
  IF indices = {} THEN 0
  ELSE CHOOSE i \in indices : \A j \in indices : i <= j

(***************************************************************************)
(* resolveCompositeSchema                                                  *)
(***************************************************************************)
\* one step of the allOf reduce:
\*   ({ ...acc, ...subSchema, enum: acc.enum || subSchema.enum })
\* the reduce step without its enum line: ({ ...acc, ...subSchema })
mergeAllOfStep_PlainSpread(acc, subSchema) == Spread(acc, subSchema)

mergeAllOfStep(acc, subSchema) ==
  LET spread == Spread(acc, subSchema)
  IN  IF Has(acc, "enum") THEN With(spread, "enum", acc.enum)
      ELSE IF Has(subSchema, "enum") THEN With(spread, "enum", subSchema.enum)
      ELSE Unset(spread, {"enum"})

RECURSIVE reduceAllOf(_, _)
reduceAllOf(acc, branches) ==
  IF branches = <<>> THEN acc
  ELSE reduceAllOf(mergeAllOfStep(acc, Head(branches)), Tail(branches))

hasNonEmptyEnum(s) == Has(s, "enum") /\ Len(s.enum) > 0

hasConst(s) == Has(s, "const")

isNotNullType(s) == ~(Has(s, "type") /\ s.type = "null")

\* schema.anyOf || schema.oneOf  (an array, even an empty one, is truthy)
compositeArrayOf(s) ==
  IF Has(s, "anyOf") THEN <<s.anyOf>>
  ELSE IF Has(s, "oneOf") THEN <<s.oneOf>>
  ELSE <<>>

\* resolveAnyOf, collecting the const values only up to the first branch
\* without const
resolveAnyOf_LeadingConsts(s, compositeArray) ==
  LET enumIdx == firstIndex({i \in DOMAIN compositeArray : hasNonEmptyEnum(compositeArray[i])})
      noConst(b) == ~hasConst(b)
      firstNoConst == firstIndex({i \in DOMAIN compositeArray : noConst(compositeArray[i])})
      constBranches ==
        IF firstNoConst = 0 THEN compositeArray
        ELSE SubSeq(compositeArray, 1, firstNoConst - 1)
      constValues == [i \in 1..Len(constBranches) |-> constBranches[i].const]
      nonNullIdx == firstIndex({i \in DOMAIN compositeArray : isNotNullType(compositeArray[i])})
  IN  IF enumIdx # 0
      THEN Unset(Spread(s, compositeArray[enumIdx]), {"anyOf", "oneOf"})
      ELSE IF Len(constValues) > 1
      THEN Unset(With(With(s, "enum", constValues), "type", "string"),
                 {"anyOf", "oneOf"})
      ELSE IF nonNullIdx # 0
      THEN Unset(Spread(s, compositeArray[nonNullIdx]), {"anyOf", "oneOf"})
      ELSE Unset(Spread(s, compositeArray[1]), {"anyOf", "oneOf"})

\* resolveAnyOf without the search for an enum branch: the const union, else
\* the first branch
resolveAnyOf_FirstBranch(s, compositeArray) ==
  LET constBranches == SelectSeq(compositeArray, hasConst)
      constValues == [i \in 1..Len(constBranches) |-> constBranches[i].const]
  IN  IF Len(constValues) > 1
      THEN Unset(With(With(s, "enum", constValues), "type", "string"),
                 {"anyOf", "oneOf"})
      ELSE Unset(Spread(s, compositeArray[1]), {"anyOf", "oneOf"})

resolveAnyOf(s, compositeArray) ==
  LET enumIdx == firstIndex({i \in DOMAIN compositeArray : hasNonEmptyEnum(compositeArray[i])})
      constBranches == SelectSeq(compositeArray, hasConst)
      constValues == [i \in 1..Len(constBranches) |-> constBranches[i].const]
      nonNullIdx == firstIndex({i \in DOMAIN compositeArray : isNotNullType(compositeArray[i])})
  IN  IF enumIdx # 0
      THEN Unset(Spread(s, compositeArray[enumIdx]), {"anyOf", "oneOf"})
      ELSE IF Len(constValues) > 1
      THEN Unset(With(With(s, "enum", constValues), "type", "string"),
                 {"anyOf", "oneOf"})
      ELSE IF nonNullIdx # 0
      THEN Unset(Spread(s, compositeArray[nonNullIdx]), {"anyOf", "oneOf"})
      ELSE Unset(Spread(s, compositeArray[1]), {"anyOf", "oneOf"})

resolveCompositeSchema(s) ==
  IF Has(s, "allOf") /\ Len(s.allOf) > 0
  THEN reduceAllOf(Unset(s, {"allOf"}), s.allOf)
  ELSE LET compositeArray == compositeArrayOf(s)
       IN  IF compositeArray # <<>> /\ Len(compositeArray[1]) > 0
           THEN resolveAnyOf(s, compositeArray[1])
           ELSE s

(***************************************************************************)
(* determineFieldType and its heuristics                                   *)
(***************************************************************************)
\* schema.k || ''
textOrEmpty(s, k) == IF Has(s, k) THEN s[k] ELSE <<>>

fileKeywords ==
  << <<"i","m","a","g","e">>, <<"f","i","l","e">>, <<"u","p","l","o","a","d">>,
     <<"a","u","d","i","o">>, <<"v","i","d","e","o">>, <<"p","h","o","t","o">>,
     <<"p","i","c","t","u","r","e">> >>

textareaKeywords ==
  << <<"p","r","o","m","p","t">>, <<"t","e","x","t">>,
     <<"m","e","s","s","a","g","e">>, <<"c","o","n","t","e","n","t">>,
     <<"d","e","s","c","r","i","p","t","i","o","n">>,
     <<"c","a","p","t","i","o","n">>, <<"n","e","g","a","t","i","v","e">> >>

isFileField(s) ==
  LET description == toLowerCase(textOrEmpty(s, "description"))
      title == toLowerCase(textOrEmpty(s, "title"))
  IN  \E i \in DOMAIN fileKeywords :
        includes(description, fileKeywords[i]) \/ includes(title, fileKeywords[i])

isTextAreaField(s) ==
  LET name == toLowerCase(textOrEmpty(s, "title"))
      description == toLowerCase(textOrEmpty(s, "description"))
  IN  IF Has(s, "maxLength") /\ s.maxLength # 0 /\ s.maxLength > 200
      THEN TRUE
      ELSE \E i \in DOMAIN textareaKeywords :
             includes(name, textareaKeywords[i])
             \/ includes(description, textareaKeywords[i])

\* determineFieldType with the uri check ahead of the enum check
determineFieldType_FormatFirst(s) ==
  IF Has(s, "format") /\ s.format = "uri" /\ isFileField(s) THEN "file"
  ELSE IF Has(s, "enum") /\ Len(s.enum) > 0 THEN "select"
  ELSE LET type == IF Has(s, "type") THEN s.type ELSE "undefined"
       IN CASE type \in {"integer", "number"} ->
                 IF Has(s, "minimum") /\ Has(s, "maximum") THEN "slider" ELSE "number"
            [] type = "boolean" -> "boolean"
            [] type = "string" ->
                 IF isTextAreaField(s) THEN "textarea"
                 ELSE IF Has(s, "format") /\ s.format = "uri" THEN "file"
                 ELSE "text"
            [] type = "array" -> "array"
            [] type = "object" -> "json"
            [] OTHER ->
                 IF Has(s, "default") /\ s.default.t = "boolean" THEN "boolean"
                 ELSE IF Has(s, "default") /\ s.default.t = "number" THEN "number"
                 ELSE "text"

determineFieldType(s) ==
  IF Has(s, "enum") /\ Len(s.enum) > 0 THEN "select"
  ELSE IF Has(s, "format") /\ s.format = "uri" /\ isFileField(s) THEN "file"
  ELSE LET type == IF Has(s, "type") THEN s.type ELSE "undefined"
       IN CASE type \in {"integer", "number"} ->
                 IF Has(s, "minimum") /\ Has(s, "maximum") THEN "slider" ELSE "number"
            [] type = "boolean" -> "boolean"
            [] type = "string" ->
                 IF isTextAreaField(s) THEN "textarea"
                 ELSE IF Has(s, "format") /\ s.format = "uri" THEN "file"
                 ELSE "text"
            [] type = "array" -> "array"
            [] type = "object" -> "json"
            [] OTHER ->
                 IF Has(s, "default") /\ s.default.t = "boolean" THEN "boolean"
                 ELSE IF Has(s, "default") /\ s.default.t = "number" THEN "number"
                 ELSE "text"

\* The step of a numeric input, in hundredths (0.01 is 1, 0.1 is 10, 1 is 100).
determineStep(s) ==
  IF Has(s, "type") /\ s.type = "integer" THEN 100
  ELSE IF Has(s, "minimum") /\ Has(s, "maximum")
  THEN LET range == s.maximum - s.minimum
       IN  IF range <= 1 THEN 1
           ELSE IF range <= 10 THEN 10
           ELSE IF range <= 100 THEN 100
           ELSE ((range + 50) \div 100) * 100
  ELSE 10

AcceptAudio == <<"a","u","d","i","o","/","*">>

AcceptVideo == <<"v","i","d","e","o","/","*">>

AcceptImage == <<"i","m","a","g","e","/","*">>

AcceptAny == AcceptImage \o <<",">> \o AcceptVideo \o <<",">> \o AcceptAudio

determineFileAccept(name, s) ==
  LET combined == toLowerCase(name \o <<" ">> \o textOrEmpty(s, "description")
                              \o <<" ">> \o textOrEmpty(s, "title"))
  IN  IF \/ includes(combined, <<"a","u","d","i","o">>)
         \/ includes(combined, <<"s","o","u","n","d">>)
         \/ includes(combined, <<"m","u","s","i","c">>)
      THEN AcceptAudio
      ELSE IF \/ includes(combined, <<"v","i","d","e","o">>)
              \/ includes(combined, <<"m","o","v","i","e">>)
      THEN AcceptVideo
      ELSE IF \/ includes(combined, <<"i","m","a","g","e">>)
              \/ includes(combined, <<"p","h","o","t","o">>)
              \/ includes(combined, <<"p","i","c","t","u","r","e">>)
      THEN AcceptImage
      ELSE AcceptAny

(***************************************************************************)
(* parseProperty, parseInputSchema, getSchemaDefaults                      *)
(***************************************************************************)
\* { ...o, k: src[from] }: the key is set only when src[from] is defined
WithOptional(o, k, src, from) == IF Has(src, from) THEN With(o, k, src[from]) ELSE o

parseProperty(name, s, required) ==
  LET resolvedSchema == resolveCompositeSchema(s)
      title == textOrEmpty(resolvedSchema, "title")
      named == [name |-> name,
                label |-> formatLabel(IF title # <<>> THEN title ELSE name),
                required |-> required,
                schema |-> resolvedSchema]
      baseField ==
        WithOptional(WithOptional(WithOptional(named,
          "description", resolvedSchema, "description"),
          "default", resolvedSchema, "default"),
          "order", resolvedSchema, "x-order")
      fieldType == determineFieldType(resolvedSchema)
      typed == With(baseField, "type", fieldType)
  IN  CASE fieldType = "select" ->
             With(typed, "options",
                  [i \in 1..Len(resolvedSchema.enum) |->
                     [label |-> formatEnumLabel(String(resolvedSchema.enum[i])),
                      value |-> resolvedSchema.enum[i]]])
        [] fieldType = "slider" ->
             With(With(With(typed,
               "min", IF Has(resolvedSchema, "minimum") THEN resolvedSchema.minimum ELSE 0),
               "max", IF Has(resolvedSchema, "maximum") THEN resolvedSchema.maximum ELSE 100),
               "step", determineStep(resolvedSchema))
        [] fieldType = "number" ->
             With(WithOptional(WithOptional(typed,
               "min", resolvedSchema, "minimum"),
               "max", resolvedSchema, "maximum"),
               "step", determineStep(resolvedSchema))
        [] fieldType = "boolean" ->
             With(typed, "default",
                  IF Has(resolvedSchema, "default") /\ resolvedSchema.default # Null
                  THEN resolvedSchema.default ELSE Bool(FALSE))
        [] fieldType = "file" ->
             With(typed, "accept", determineFileAccept(name, resolvedSchema))
        [] OTHER -> typed

\* the key of the sort comparator: order ?? 999
DefaultOrder == 999

\* the sort key with 0 for a missing order
sortKey_ZeroDefault(field) == IF Has(field, "order") THEN field.order ELSE 0

sortKey(field) == IF Has(field, "order") THEN field.order ELSE DefaultOrder

\* Array.prototype.sort with the comparator (a, b) => key(a) - key(b): the
\* sort is stable, so each element goes after the elements whose key is not
\* larger than its own.
RECURSIVE sortByOrder(_)
sortByOrder(fs) ==
  IF fs = <<>> THEN <<>>
  ELSE LET sortedInit == sortByOrder(SubSeq(fs, 1, Len(fs) - 1))
           last == fs[Len(fs)]
           keep(f) == sortKey(f) <= sortKey(last)
           move(f) == ~keep(f)
       IN  SelectSeq(sortedInit, keep) \o <<last>> \o SelectSeq(sortedInit, move)

\* schema is <<>> for null/undefined, <<object>> otherwise; an entry of
\* properties is [name, value], value being <<>> for a null property schema.
hasProperties(schema0) == schema0 # <<>> /\ Has(schema0[1], "properties")

requiredNames(s) == IF Has(s, "required") THEN Range(s.required) ELSE {}

\* the loop over the entries, leaving at the first null property schema
RECURSIVE parseEntries_StopAtNull(_, _)
parseEntries_StopAtNull(entries, required) ==
  IF entries = <<>> THEN <<>>
  ELSE LET e == Head(entries)
       IN  IF e.value = <<>> THEN <<>>
           ELSE <<parseProperty(e.name, e.value[1], e.name \in required)>>
                \o parseEntries_StopAtNull(Tail(entries), required)

RECURSIVE parseEntries(_, _)
parseEntries(entries, required) ==
  IF entries = <<>> THEN <<>>
  ELSE LET e == Head(entries)
       IN  (IF e.value = <<>> THEN <<>>
            ELSE <<parseProperty(e.name, e.value[1], e.name \in required)>>)
           \o parseEntries(Tail(entries), required)

parseInputSchema(schema0) ==
  IF ~hasProperties(schema0) THEN <<>>
  ELSE sortByOrder(parseEntries(schema0[1].properties, requiredNames(schema0[1])))

\* the returned mapping, as the function from the names it holds
getSchemaDefaults(schema0) ==
  IF ~hasProperties(schema0) THEN EmptyObject
  ELSE LET entries == schema0[1].properties
           holds(i) == entries[i].value # <<>> /\ Has(entries[i].value[1], "default")
       IN  [name \in {entries[i].name : i \in {j \in DOMAIN entries : holds(j)}} |->
              LET i == CHOOSE j \in DOMAIN entries : entries[j].name = name
              IN  entries[i].value[1].default]

(***************************************************************************)
(* validateInput                                                           *)
(***************************************************************************)
\* new Set(array), iterated: first occurrences, in order
RECURSIVE uniqueInOrder(_)
uniqueInOrder(seq) ==
  IF seq = <<>> THEN <<>>
  ELSE LET init == uniqueInOrder(SubSeq(seq, 1, Len(seq) - 1))
           last == seq[Len(seq)]
       IN  IF last \in Range(init) THEN init ELSE Append(init, last)

\* Array.prototype.join(', '): null and undefined members give ''
RECURSIVE joinValues(_)
joinValues(vals) ==
  IF vals = <<>> THEN <<>>
  ELSE LET text(v) == IF v = Null THEN <<>> ELSE String(v)
       IN  IF Len(vals) = 1 THEN text(vals[1])
           ELSE text(vals[1]) \o <<",", " ">> \o joinValues(Tail(vals))

requiredMessage(name) == formatLabel(name) \o <<" ","i","s"," ","r","e","q","u","i","r","e","d">>

enumMessage(name, enum) == formatLabel(name) \o <<" ","m","u","s","t"," ","b","e"," ","o","n","e"," ","o","f",":"," ">> \o joinValues(enum)

atLeastMessage(name, n) == formatLabel(name) \o <<" ","m","u","s","t"," ","b","e"," ","a","t"," ","l","e","a","s","t"," ">> \o String(Num(n))

atMostMessage(name, n) == formatLabel(name) \o <<" ","m","u","s","t"," ","b","e"," ","a","t"," ","m","o","s","t"," ">> \o String(Num(n))

charactersSuffix == <<" ","c","h","a","r","a","c","t","e","r","s">>

\* input[name] === undefined || input[name] === null || input[name] === ''
isMissing(inp, name) ==
  ~Has(inp, name) \/ inp[name] = Null \/ inp[name] = Str(<<>>)

RECURSIVE requiredErrors(_, _)
requiredErrors(inp, names) ==
  IF names = <<>> THEN <<>>
  ELSE (IF isMissing(inp, Head(names)) THEN <<requiredMessage(Head(names))>> ELSE <<>>)
       \o requiredErrors(inp, Tail(names))

\* the body of the constraint loop for one property
propertyErrors(name, propSchema, inp) ==
  IF ~Has(inp, name) \/ inp[name] = Null THEN <<>>
  ELSE LET value == inp[name]
       IN  (IF Has(propSchema, "enum") /\ value \notin Range(propSchema.enum)
            THEN <<enumMessage(name, propSchema.enum)>> ELSE <<>>)
        \o (IF value.t = "number" /\ Has(propSchema, "minimum")
               /\ value.n < propSchema.minimum
            THEN <<atLeastMessage(name, propSchema.minimum)>> ELSE <<>>)
        \o (IF value.t = "number" /\ Has(propSchema, "maximum")
               /\ value.n > propSchema.maximum
            THEN <<atMostMessage(name, propSchema.maximum)>> ELSE <<>>)
        \o (IF value.t = "string" /\ Has(propSchema, "minLength")
               /\ Len(value.s) < propSchema.minLength
            THEN <<atLeastMessage(name, propSchema.minLength) \o charactersSuffix>>
            ELSE <<>>)
        \o (IF value.t = "string" /\ Has(propSchema, "maxLength")
               /\ Len(value.s) > propSchema.maxLength
            THEN <<atMostMessage(name, propSchema.maxLength) \o charactersSuffix>>
            ELSE <<>>)

RECURSIVE constraintErrors(_, _)
constraintErrors(entries, inp) ==
  IF entries = <<>> THEN <<>>
  ELSE LET e == Head(entries)
       IN  (IF e.value = <<>> THEN <<>> ELSE propertyErrors(e.name, e.value[1], inp))
           \o constraintErrors(Tail(entries), inp)

\* validateInput returning at the first error
validateInput_FirstErrorOnly(inp, schema0) ==
  IF ~hasProperties(schema0) THEN [valid |-> TRUE, errors |-> <<>>]
  ELSE LET s == schema0[1]
           required == uniqueInOrder(IF Has(s, "required") THEN s.required ELSE <<>>)
           errors == requiredErrors(inp, required)
                     \o constraintErrors(s.properties, inp)
       IN  [valid |-> Len(errors) = 0,
            errors |-> IF errors = <<>> THEN <<>> ELSE <<errors[1]>>]

validateInput(inp, schema0) ==
  IF ~hasProperties(schema0) THEN [valid |-> TRUE, errors |-> <<>>]
  ELSE LET s == schema0[1]
           required == uniqueInOrder(IF Has(s, "required") THEN s.required ELSE <<>>)
           errors == requiredErrors(inp, required)
                     \o constraintErrors(s.properties, inp)
       IN  [valid |-> Len(errors) = 0, errors |-> errors]

(***************************************************************************)
(* Inputs                                                                  *)
(***************************************************************************)
\* the most branches one node carries over allOf, anyOf and oneOf together
\* (a combinator present as an empty list counts as one)
MaxBranches == 3

\* the most entries of a properties mapping
MaxProps == 3

SeqsOfLen(S, k) == [1..k -> S]

NameP == <<"p">>

NameML == <<"m","_","l">>

NameTK == <<"t","K">>

NameQ == <<"q","-","r">>

NameSeq == <<NameP, NameML, NameTK, NameQ>>

Names == {NameSeq[i] : i \in 1..MaxProps}

TextImage == <<"I","m","a","g","e">>

TextPrompt == <<"T","e","x","t">>

TextPlain == <<"s","i","z","e">>

ValA == Str(<<"a">>)

ValB == Str(<<"b","_","c">>)

ValC == Str(<<"c">>)

\* a node is assembled from one choice per key; EmptyObject leaves the key out
OneOfKey(k, vals) == {EmptyObject} \cup {[j \in {k} |-> v] : v \in vals}

TypeChoices ==
  OneOfKey("type", {"string", "integer", "number", "boolean", "array",
                    "object", "null", "tensor"})

EnumChoices == OneOfKey("enum", {<<>>, <<ValA, ValB>>})

FormatChoices == OneOfKey("format", {"uri"})

TitleChoices == OneOfKey("title", {TextImage, TextPrompt})

BoundsChoices == {EmptyObject, [minimum |-> 0], [minimum |-> 0, maximum |-> 10]}

DefaultChoices == OneOfKey("default", {Bool(TRUE), Num(5), ValA})

MaxLengthChoices == OneOfKey("maxLength", {500})

\* nodes without combinators
PlainNodes ==
  {Spread(t, Spread(e, Spread(f, Spread(ti, Spread(b, Spread(d, m)))))) :
     t \in TypeChoices, e \in EnumChoices, f \in FormatChoices,
     ti \in TitleChoices, b \in BoundsChoices, d \in DefaultChoices,
     m \in MaxLengthChoices}

\* the branches of a combinator: leaves, and one that carries a combinator
Branches ==
  { [type |-> "null"],
    [const |-> ValA],
    [const |-> ValB, title |-> TextPlain],
    [enum |-> <<ValC, ValA>>, type |-> "string", default |-> ValC],
    [type |-> "integer", minimum |-> 0, maximum |-> 10, default |-> Num(5)],
    [type |-> "string", format |-> "uri", description |-> TextImage],
    [anyOf |-> <<[const |-> ValA], [const |-> ValC]>>, enum |-> <<ValB>>] }

\* the nodes that carry the combinators
Parents ==
  { EmptyObject,
    [type |-> "number", default |-> Num(1), minimum |-> 1],
    [enum |-> <<ValB>>, type |-> "object", title |-> TextPrompt],
    [type |-> "null", format |-> "uri"] }

\* the lists of a given size: that many branches, or the empty list for 1
ListsOfCost(c) ==
  IF c = 1 THEN {<<>>} \cup SeqsOfLen(Branches, 1) ELSE SeqsOfLen(Branches, c)

listCost(l) == IF l = <<>> THEN 1 ELSE Len(l)

\* key k absent, or holding a list of a size within the budget
CombinatorChoices(k, budget) ==
  {EmptyObject} \cup UNION {{[j \in {k} |-> l] : l \in ListsOfCost(c)} : c \in 1..budget}

costOf(c, k) == IF Has(c, k) THEN listCost(c[k]) ELSE 0

\* the nodes of a mapping with several properties: the x-order cases, and
\* a default set on the node or in an allOf branch
OrderedNodes ==
  { [allOf |-> <<[default |-> ValA]>>],
    [k \in {"x-order"} |-> 1],
    [k \in {"x-order"} |-> 2],
    [k \in {"x-order", "default"} |-> IF k = "default" THEN Num(5) ELSE DefaultOrder],
    [k \in {"x-order"} |-> DefaultOrder + 1] }

\* a property schema, or null
PropertyValues(nodes) == {<<>>} \cup {<<n>> : n \in nodes}

IsInjective(seq) == \A i, j \in DOMAIN seq : seq[i] = seq[j] => i = j

SingleProperty(node) == <<[properties |-> <<[name |-> NameP, value |-> <<node>>]>>]>>

\* no schema at all, and schemas without a properties mapping
NoProperties == {<<>>, <<EmptyObject>>, <<[required |-> <<NameP>>]>>}

NameText == <<"n","e","g","a","t","i","v","e","_","T","e","x","t">>

\* string nodes for a property whose name holds a textarea keyword
KeywordNamedNodes ==
  { Spread([type |-> "string"], Spread(f, ti)) :
      f \in FormatChoices, ti \in OneOfKey("title", {TextPlain}) }

\* the schemas handed to the parser: none, one property over every plain
\* node and every composite node, a property with a keyword for its name,
\* several properties over the ordered nodes
IsParseSchema(schema0) ==
  \/ schema0 \in NoProperties
  \/ \E node \in KeywordNamedNodes :
       schema0 = <<[properties |-> <<[name |-> NameText, value |-> <<node>>]>>]>>
  \/ \E node \in PlainNodes : schema0 = SingleProperty(node)
  \/ \E p \in Parents :
       \E a \in CombinatorChoices("allOf", MaxBranches) :
         \E n \in CombinatorChoices("anyOf", MaxBranches - costOf(a, "allOf")) :
           \E o \in CombinatorChoices("oneOf",
                      MaxBranches - costOf(a, "allOf") - costOf(n, "anyOf")) :
             schema0 = SingleProperty(Spread(p, Spread(a, Spread(n, o))))
  \/ \E k \in 0..MaxProps :
       \E ns \in SeqsOfLen(Names, k) :
         /\ IsInjective(ns)
         /\ \E vs \in SeqsOfLen(PropertyValues(OrderedNodes), k) :
              schema0 = <<[properties |-> [i \in 1..k |-> [name |-> ns[i], value |-> vs[i]]],
                           required |-> <<NameP>>]>>

(***************************************************************************)
(* Calls of the parser                                                     *)
(***************************************************************************)
NoValidation == [valid |-> TRUE, errors |-> <<>>]

\* the model page as its useState calls leave it: loading, no model, no
\* schema, no clone values, nothing submitted
PageInit ==
  /\ isLoading = TRUE
  /\ model = "null"
  /\ inputSchema = <<>>
  /\ initialValues = EmptyObject
  /\ cloneFetch = "pending"
  /\ values = EmptyObject
  /\ edited = FALSE
  /\ isSubmitting = FALSE
  /\ posted = <<>>

\* no ranking call is under way
RankInit ==
  /\ clock = 0
  /\ subject = EmptyObject
  /\ calls = <<>>
  /\ models = <<>>
  /\ query = <<>>
  /\ scored = <<>>
  /\ result = <<>>
  /\ returnsInput = FALSE

\* no call of fetchWithRetry is under way
RetryInit ==
  /\ attempt = 0
  /\ sent = 0
  /\ responses = <<>>
  /\ phase = "idle"
  /\ outcome = [kind |-> "none"]

\* the state of useInfiniteModels({ fetchUrl }) after its useState and useRef
\* initialisers, before the effect of the first render has run; requests is
\* the list of the fetches under way, answeredUrl the URL of the last
\* first-page request that was answered
hookState(url) ==
  [ fetchUrl |-> url, currentUrlRef |-> url, mounted |-> FALSE,
    models |-> <<>>, nextCursor |-> <<>>, isLoading |-> FALSE,
    isLoadingMore |-> FALSE, error |-> <<>>, hasMore |-> TRUE,
    loadedIds |-> {}, isRequestInFlight |-> FALSE,
    requests |-> <<>>, answeredUrl |-> <<>> ]

\* no model browser is mounted
HookIdle == hook = hookState("/api/models")

\* the prediction state of the model page after its useState initialisers:
\* nothing is displayed and nothing has been submitted. submits counts the
\* POSTs sent and creating those still unanswered; remote is the status of
\* each prediction at the API, known the last status the page was told,
\* polls the predictions with a GET under way, timers those with a
\* setTimeout pending, latest the id of the last prediction created
PollingIdle ==
  polling = [ prediction |-> <<>>, isSubmitting |-> FALSE, error |-> <<>>,
              submits |-> 0, creating |-> 0, remote |-> <<>>, known |-> <<>>,
              polls |-> {}, timers |-> {}, latest |-> 0 ]

\* the prediction store of a server that has just started: the Map is empty
\* and no route handler is under way. created counts the predictions made
\* at the API, remote is the status of each there, handlers the GET
\* handlers awaiting getPrediction, deleted the localIds deleted so far and
\* lateUpdates those for which a handler called updateStoredPrediction
\* after the deletion
StoreIdle ==
  store = [ predictions |-> EmptyObject, created |-> 0, remote |-> <<>>,
            handlers |-> {}, deleted |-> {}, lateUpdates |-> {} ]

LaterInit == RetryInit /\ HookIdle /\ PollingIdle /\ StoreIdle

\* no parser call is under way and none is to come
ParserIdle ==
  /\ schema = <<>>
  /\ input = EmptyObject
  /\ called = "none"
  /\ fields = <<>>
  /\ defaults = EmptyObject
  /\ validation = NoValidation

Init ==
  /\ IsParseSchema(schema)
  /\ input = EmptyObject
  /\ called = "none"
  /\ fields = <<>>
  /\ defaults = EmptyObject
  /\ validation = NoValidation
  /\ PageInit
  /\ LaterInit
  /\ RankInit

ParseInputSchema ==
  /\ called = "none"
  /\ called' = "parseInputSchema"
  /\ fields' = parseInputSchema(schema)
  /\ UNCHANGED <<schema, input, defaults, validation, pageVars, rankVars, laterVars>>

GetSchemaDefaults ==
  /\ called = "none"
  /\ called' = "getSchemaDefaults"
  /\ defaults' = getSchemaDefaults(schema)
  /\ UNCHANGED <<schema, input, fields, validation, pageVars, rankVars, laterVars>>

Next == ParseInputSchema \/ GetSchemaDefaults

Spec == Init /\ [][Next]_vars

(***************************************************************************)
(* Properties of parseInputSchema and getSchemaDefaults                    *)
(***************************************************************************)
parsed == called = "parseInputSchema"

entriesOf(schema0) == IF hasProperties(schema0) THEN schema0[1].properties ELSE <<>>

\* the property schemas that are not null, as [name, node]
PropertyNodes ==
  {[name |-> e.name, node |-> e.value[1]] :
     e \in {x \in Range(entriesOf(schema)) : x.value # <<>>}}

FieldsNamed(name) == {f \in Range(fields) : f.name = name}

optionValues(f) == [i \in 1..Len(f.options) |-> f.options[i].value]

isSelectOver(f, vals) ==
  f.type = "select" /\ Has(f, "options") /\ optionValues(f) = vals

\* the node is resolved through its anyOf/oneOf list (step 2 of the
\* composite resolution): no allOf branches, and a non-empty list
isAnyOfComposite(s) ==
  /\ ~(Has(s, "allOf") /\ s.allOf # <<>>)
  /\ compositeArrayOf(s) # <<>>
  /\ compositeArrayOf(s)[1] # <<>>

carriesConst(b) == "const" \in DOMAIN b

constsInBranchOrder(arr) ==
  LET cs == SelectSeq(arr, carriesConst) IN [i \in 1..Len(cs) |-> cs[i].const]

\* C1: a property whose resolved node has a non-empty enum becomes a 'select'
\* field, whatever its type, format or bounds, with one option per enum
\* member, options[i].value = enum[i].
C1_EnumBecomesSelect ==
  parsed =>
    \A p \in PropertyNodes :
      LET r == resolveCompositeSchema(p.node)
      IN  ("enum" \in DOMAIN r /\ r.enum # <<>>) =>
            /\ FieldsNamed(p.name) # {}
            /\ \A f \in FieldsNamed(p.name) : isSelectOver(f, r.enum)

\* C1 witness: a node with an enum, format uri, a media title, a numeric type
\* and both bounds has been parsed into a select
C1_Witness ==
  /\ parsed
  /\ \E p \in PropertyNodes :
       /\ {"enum", "format", "title", "minimum", "maximum", "type"} \subseteq DOMAIN p.node
       /\ p.node.enum # <<>> /\ p.node.format = "uri" /\ p.node.type = "integer"
       /\ p.node.title = TextImage
       /\ \E f \in FieldsNamed(p.name) : f.type = "select" /\ Len(f.options) = 2

isNullableEnum(arr) ==
  /\ Len(arr) = 2
  /\ \E i, j \in 1..2 :
       /\ i # j
       /\ "enum" \in DOMAIN arr[i] /\ arr[i].enum # <<>>
       /\ arr[j] = [type |-> "null"]

enumBranchOf(arr) == CHOOSE b \in Range(arr) : "enum" \in DOMAIN b /\ b.enum # <<>>

combinatorKeys == {"allOf", "anyOf", "oneOf"}

\* C4: the node resolveCompositeSchema returns carries no combinator any
\* more, so resolving it again returns it unchanged.
C4_ResolvedIsCombinatorFree ==
  parsed =>
    \A f \in Range(fields) :
      /\ \A k \in combinatorKeys : k \in DOMAIN f.schema => f.schema[k] = <<>>
      /\ resolveCompositeSchema(f.schema) = f.schema

\* the keys an allOf merge takes from the last branch that defines them
concreteKeysOf(s) ==
  ((DOMAIN s) \cup UNION {DOMAIN s.allOf[i] : i \in DOMAIN s.allOf})
  \ (combinatorKeys \cup {"enum"})

Maximum(S) == CHOOSE x \in S : \A y \in S : y <= x

Minimum(S) == CHOOSE x \in S : \A y \in S : x <= y

\* C5: under a non-empty allOf, each concrete field of the resolved node is
\* that of the last branch that defines it, else the parent's; the enum is
\* the parent's if it has one, else that of the first branch that has one.
C5_AllOfMerge ==
  parsed =>
    \A p \in PropertyNodes :
      ("allOf" \in DOMAIN p.node /\ p.node.allOf # <<>>) =>
        /\ FieldsNamed(p.name) # {}
        /\ \A f \in FieldsNamed(p.name) :
             LET r == f.schema
                 defining(k) == {i \in DOMAIN p.node.allOf : k \in DOMAIN p.node.allOf[i]}
             IN  /\ \A k \in concreteKeysOf(p.node) :
                       IF defining(k) # {}
                       THEN k \in DOMAIN r /\ r[k] = p.node.allOf[Maximum(defining(k))][k]
                       ELSE k \in DOMAIN r /\ r[k] = p.node[k]
                 /\ IF "enum" \in DOMAIN p.node
                    THEN "enum" \in DOMAIN r /\ r.enum = p.node.enum
                    ELSE IF defining("enum") # {}
                    THEN "enum" \in DOMAIN r
                         /\ r.enum = p.node.allOf[Minimum(defining("enum"))].enum
                    ELSE "enum" \notin DOMAIN r

\* C5 witness: under a parent with a type and no enum, two branches define
\* type differently and two define enum differently; the last type and the
\* first enum are kept
C5_Witness ==
  /\ parsed
  /\ \E p \in PropertyNodes :
       /\ "allOf" \in DOMAIN p.node /\ p.node.allOf # <<>>
       /\ "type" \in DOMAIN p.node /\ "enum" \notin DOMAIN p.node
       /\ LET a == p.node.allOf
              types == {i \in DOMAIN a : "type" \in DOMAIN a[i]}
              enums == {i \in DOMAIN a : "enum" \in DOMAIN a[i]}
          IN  /\ \E i, j \in types : a[i].type # a[j].type
              /\ \E i, j \in enums : a[i].enum # a[j].enum
              /\ \E f \in FieldsNamed(p.name) :
                   /\ f.schema.type = a[Maximum(types)].type
                   /\ f.schema.type # p.node.type
                   /\ f.schema.enum = a[Minimum(enums)].enum

positionOf(name) ==
  CHOOSE i \in DOMAIN entriesOf(schema) : entriesOf(schema)[i].name = name

hasOrder(f) == "order" \in DOMAIN f

orderedAscending ==
  \A i, j \in DOMAIN fields :
    (i < j /\ hasOrder(fields[i]) /\ hasOrder(fields[j])) =>
      fields[i].order <= fields[j].order

unorderedKeepMappingOrder ==
  \A i, j \in DOMAIN fields :
    (i < j /\ ~hasOrder(fields[i]) /\ ~hasOrder(fields[j])) =>
      positionOf(fields[i].name) < positionOf(fields[j].name)

\* C6 as stated: fields with an x-order are in ascending x-order, every field
\* without an x-order comes after every field that has one, whatever x-order
\* values the schema declares, and the fields without an x-order keep the
\* order of the properties mapping.
C6_UnorderedAfterEveryOrdered ==
  parsed =>
    /\ orderedAscending
    /\ \A i, j \in DOMAIN fields :
         (~hasOrder(fields[i]) /\ hasOrder(fields[j])) => j < i
    /\ unorderedKeepMappingOrder

\* C6 as amended: fields with an x-order are in ascending x-order, every field
\* without an x-order comes after every field whose x-order is below 999, and
\* the fields without an x-order keep the order of the properties mapping.
C6_UnorderedAfterOrderedBelowDefault ==
  parsed =>
    /\ orderedAscending
    /\ \A i, j \in DOMAIN fields :
         (~hasOrder(fields[i]) /\ hasOrder(fields[j]) /\ fields[j].order < 999)
           => j < i
    /\ unorderedKeepMappingOrder

\* C6 witness: the mapping lists a property without x-order first, then
\* x-order 2, then x-order 1, and the fields come out as 1, 2, unordered
C6_Witness ==
  /\ parsed
  /\ Len(fields) = 3 /\ Len(entriesOf(schema)) = 3
  /\ hasOrder(fields[1]) /\ fields[1].order = 1 /\ positionOf(fields[1].name) = 3
  /\ hasOrder(fields[2]) /\ fields[2].order = 2 /\ positionOf(fields[2].name) = 2
  /\ ~hasOrder(fields[3]) /\ positionOf(fields[3].name) = 1

recognisedTypes == {"integer", "number", "boolean", "string", "array", "object"}

\* C9: parseInputSchema returns a value for every schema: exactly one field
\* for each property that is not null, under distinct names; and a resolved
\* node with no enum members, no uri format, no recognised type and no
\* boolean or number default becomes a 'text' field.
C9_TotalWithTextFallback ==
  parsed =>
    /\ Len(fields) = Cardinality(PropertyNodes)
    /\ \A i, j \in DOMAIN fields : fields[i].name = fields[j].name => i = j
    /\ {fields[i].name : i \in DOMAIN fields} = {p.name : p \in PropertyNodes}
    /\ \A p \in PropertyNodes :
         LET r == resolveCompositeSchema(p.node)
         IN  (/\ "enum" \in DOMAIN r => r.enum = <<>>
              /\ "format" \in DOMAIN r => r.format # "uri"
              /\ "type" \in DOMAIN r => r.type \notin recognisedTypes
              /\ "default" \in DOMAIN r => r.default.t \notin {"boolean", "number"})
             => \A f \in FieldsNamed(p.name) : f.type = "text"

\* C9 witness: a mapping with a null property and a property without a type
\* has been parsed: the null property gives no field, the other a 'text' field
C9_Witness ==
  /\ parsed
  /\ \E e \in Range(entriesOf(schema)) : e.value = <<>>
  /\ \E p \in PropertyNodes :
       /\ \E f \in FieldsNamed(p.name) : f.type = "text"
       /\ "type" \notin DOMAIN resolveCompositeSchema(p.node)
  /\ Len(fields) < Len(entriesOf(schema))

\* C10: getSchemaDefaults maps a property name to a default exactly when the
\* property's composite-resolved node has a default, also one declared only
\* in an allOf/anyOf/oneOf branch, and the value is the resolved default.
C10_DefaultsAreResolvedDefaults ==
  called = "getSchemaDefaults" =>
    \A p \in PropertyNodes :
      LET r == resolveCompositeSchema(p.node)
      IN  /\ p.name \in DOMAIN defaults <=> "default" \in DOMAIN r
          /\ p.name \in DOMAIN defaults => defaults[p.name] = r.default

(***************************************************************************)
(* Calls of validateInput                                                  *)
(***************************************************************************)
\* the most entries of a validated properties mapping
MaxValidatedProps == 2

ConstrainedNodes ==
  { EmptyObject,
    [enum |-> <<ValA>>, minimum |-> 2, minLength |-> 2],
    [maximum |-> 4, maxLength |-> 2] }

\* properties mappings over the first k names, in that order
ValidatedMappings(k) ==
  { [i \in 1..k |-> [name |-> NameSeq[i], value |-> vs[i]]] :
      vs \in SeqsOfLen(PropertyValues(ConstrainedNodes), k) }

\* required: absent, one name, and a list that repeats a name; with fewer
\* than two properties the list names a property the mapping does not have
RequiredChoices ==
  OneOfKey("required", {<<>>, <<NameP>>, <<NameML, NameP, NameML>>})

ValidateSchemas ==
  {<<>>}
  \cup {<<r>> : r \in RequiredChoices}
  \cup UNION { { <<Spread([properties |-> m], r)>> :
                   m \in ValidatedMappings(k), r \in RequiredChoices } :
               k \in 0..MaxValidatedProps }

\* the values of an input entry: null, '', strings of length 1 and 3,
\* numbers below, within and above the bounds
InputValueSeq ==
  <<Null, Str(<<>>), ValA, Str(<<"a","b","c">>), Num(1), Num(3), Num(5)>>

\* the names validateInput reads from the input
namesRead(schema0) ==
  IF schema0 = <<>> THEN {}
  ELSE requiredNames(schema0[1])
       \cup {entriesOf(schema0)[i].name : i \in DOMAIN entriesOf(schema0)}

\* an input mapping over the names read: c gives each name no entry (0)
\* or one of the values
inputOf(schema0, c) ==
  [n \in {m \in namesRead(schema0) : c[m] # 0} |-> InputValueSeq[c[n]]]

InitValidate ==
  /\ schema \in ValidateSchemas
  /\ input = EmptyObject
  /\ called = "none"
  /\ fields = <<>>
  /\ defaults = EmptyObject
  /\ validation = NoValidation
  /\ PageInit
  /\ LaterInit
  /\ RankInit

ValidateInput ==
  /\ called = "none"
  /\ \E c \in [namesRead(schema) -> 0..Len(InputValueSeq)] :
       /\ input' = inputOf(schema, c)
       /\ validation' = validateInput(inputOf(schema, c), schema)
  /\ called' = "validateInput"
  /\ UNCHANGED <<schema, fields, defaults, pageVars, rankVars, laterVars>>

NextValidate == ValidateInput

SpecValidate == InitValidate /\ [][NextValidate]_vars

(***************************************************************************)
(* Properties of validateInput                                             *)
(***************************************************************************)
validated == called = "validateInput"

declaredRequired ==
  IF schema # <<>> /\ "required" \in DOMAIN schema[1]
  THEN {schema[1].required[i] : i \in DOMAIN schema[1].required}
  ELSE {}

missingIn(inp, name) ==
  name \notin DOMAIN inp \/ inp[name] = Null \/ inp[name] = Str(<<>>)

reported(message) == \E i \in DOMAIN validation.errors : validation.errors[i] = message

\* C7: validateInput reports '<Label> is required' for each name listed in
\* schema.required whose input value is undefined, null or '', and returns
\* valid = false then, also when the properties mapping is absent or does
\* not list the name.
C7_RequiredAlwaysReported ==
  validated =>
    \A name \in declaredRequired :
      missingIn(input, name) =>
        reported(requiredMessage(name)) /\ validation.valid = FALSE

\* the constraints of property p that the input violates, as the messages
\* that report them
violationsOf(p) ==
  LET n == p.node
      present == p.name \in DOMAIN input /\ input[p.name] # Null
      v == input[p.name]
  IN  (IF p.name \in declaredRequired /\ missingIn(input, p.name)
       THEN {requiredMessage(p.name)} ELSE {})
      \cup (IF present /\ "enum" \in DOMAIN n
               /\ \A i \in DOMAIN n.enum : n.enum[i] # v
            THEN {enumMessage(p.name, n.enum)} ELSE {})
      \cup (IF present /\ v.t = "number" /\ "minimum" \in DOMAIN n /\ v.n < n.minimum
            THEN {atLeastMessage(p.name, n.minimum)} ELSE {})
      \cup (IF present /\ v.t = "number" /\ "maximum" \in DOMAIN n /\ v.n > n.maximum
            THEN {atMostMessage(p.name, n.maximum)} ELSE {})
      \cup (IF present /\ v.t = "string" /\ "minLength" \in DOMAIN n
               /\ Len(v.s) < n.minLength
            THEN {atLeastMessage(p.name, n.minLength) \o charactersSuffix} ELSE {})
      \cup (IF present /\ v.t = "string" /\ "maxLength" \in DOMAIN n
               /\ Len(v.s) > n.maxLength
            THEN {atMostMessage(p.name, n.maxLength) \o charactersSuffix} ELSE {})

\* C8: one call of validateInput returns an error for every violated
\* constraint (required, enum, minimum, maximum, minLength, maxLength) of
\* every property of the schema, and valid is true exactly when the errors
\* list is empty.
C8_ErrorsAccumulate ==
  validated =>
    /\ validation.valid <=> validation.errors = <<>>
    /\ \A p \in PropertyNodes : \A m \in violationsOf(p) : reported(m)
    /\ Len(validation.errors) >= Cardinality(UNION {violationsOf(p) : p \in PropertyNodes})

\* C8 witness: two properties violate constraints in one call, one of them
\* two at once, and all of them are reported
C8_Witness ==
  /\ validated
  /\ ~validation.valid
  /\ \E p, q \in PropertyNodes :
       /\ p.name # q.name
       /\ Cardinality(violationsOf(p)) >= 2
       /\ violationsOf(q) # {}
       /\ \A m \in violationsOf(p) \cup violationsOf(q) : reported(m)

(***************************************************************************)
(* The model page (src/app/models/[owner]/[name]/page.tsx) opened with a   *)
(* clone id, and the PredictionForm it renders (src/unnamed/part_005).     *)
(* `schema` is the input schema of the model the server returns; the two   *)
(* fetches the page starts on mount complete in either order.              *)
(***************************************************************************)
MaxFormProps == 2

\* property schemas: a string with a default and a length limit, an integer
\* with a default and a lower bound, a string with neither
FormNodes ==
  { [type |-> "string", default |-> ValA, maxLength |-> 2],
    [type |-> "integer", default |-> Num(5), minimum |-> 2],
    [type |-> "string"] }

FormMappings(k) ==
  { [i \in 1..k |-> [name |-> NameSeq[i], value |-> <<ns[i]>>]] :
      ns \in SeqsOfLen(FormNodes, k) }

FormSchemas ==
  {<<>>}
  \cup UNION { { <<Spread([properties |-> m], r)>> :
                   m \in FormMappings(k), r \in OneOfKey("required", {<<NameP>>}) } :
               k \in 1..MaxFormProps }

\* the values an input entry or a form control can hold: '', a string of
\* length 3, a number below the lower bound
FormValueSeq == <<Str(<<>>), ValB, Num(1)>>

propertyNames(schema0) ==
  IF schema0 = <<>> THEN {}
  ELSE {entriesOf(schema0)[i].name : i \in DOMAIN entriesOf(schema0)}

\* an input mapping over the property names: c gives each name no entry (0)
\* or one of the values
formInputOf(schema0, c) ==
  [n \in {m \in propertyNames(schema0) : c[m] # 0} |-> FormValueSeq[c[n]]]

InitPage ==
  /\ schema \in FormSchemas
  /\ input = EmptyObject
  /\ called = "none"
  /\ fields = <<>>
  /\ defaults = EmptyObject
  /\ validation = NoValidation
  /\ PageInit
  /\ LaterInit
  /\ RankInit

\* the page renders the form once loading is over and a model is there
formMounted == ~isLoading /\ model # "null"

\* the form renders its controls and buttons
formShown == formMounted /\ inputSchema # <<>> /\ fields # <<>>

\* fetchModel settles: on success the model and its input schema are set,
\* loading ends and PredictionForm mounts, its useMemo and useState
\* initialisers running once; on failure the error view is shown
FetchModelCompletes ==
  /\ isLoading
  /\ isLoading' = FALSE
  /\ \E ok \in BOOLEAN :
       IF ok
       THEN /\ model' = "set"
            /\ inputSchema' = schema
            /\ fields' = parseInputSchema(schema)
            /\ defaults' = getSchemaDefaults(schema)
            /\ values' = Spread(getSchemaDefaults(schema), initialValues)
       ELSE UNCHANGED <<model, inputSchema, fields, defaults, values>>
  /\ UNCHANGED <<rankVars, laterVars, schema, input, called, validation, initialValues, cloneFetch,
                 edited, isSubmitting, posted>>

\* the clone effect's fetch settles: when the stored prediction is found its
\* input becomes initialValues; a failed request or no match changes nothing
FetchCloneCompletes ==
  /\ cloneFetch = "pending"
  /\ cloneFetch' = "done"
  /\ \/ \E c \in [propertyNames(schema) -> 0..Len(FormValueSeq)] :
          initialValues' = formInputOf(schema, c)
     \/ UNCHANGED initialValues
  /\ UNCHANGED <<parserVars, rankVars, laterVars, isLoading, model, inputSchema, values, edited,
                 isSubmitting, posted>>

\* handleChange(name, value) from a control of the form; a cleared number
\* control passes undefined
HandleChange ==
  /\ formShown
  /\ \E i \in DOMAIN fields :
       \/ \E v \in Range(FormValueSeq) : values' = With(values, fields[i].name, v)
       \/ values' = Unset(values, {fields[i].name})
  /\ edited' = TRUE
  /\ UNCHANGED <<parserVars, rankVars, laterVars, isLoading, model, inputSchema, initialValues,
                 cloneFetch, isSubmitting, posted>>

\* handleReset: the reset button is disabled while a submission is out
HandleReset ==
  /\ formShown /\ ~isSubmitting
  /\ values' = Spread(defaults, initialValues)
  /\ UNCHANGED <<parserVars, rankVars, laterVars, isLoading, model, inputSchema, initialValues,
                 cloneFetch, edited, isSubmitting, posted>>

\* the entries handleSubmit copies: those not undefined, null or ''
submittedInput(vals) ==
  [k \in {j \in DOMAIN vals : vals[j] # Null /\ vals[j] # Str(<<>>)} |-> vals[k]]

\* the form's handleSubmit calls onSubmit, the page's handleSubmit, which
\* posts the input to /api/predictions; the submit button is disabled while
\* a submission is out
HandleSubmit ==
  /\ formShown /\ ~isSubmitting
  /\ isSubmitting' = TRUE
  /\ posted' = <<submittedInput(values)>>
  /\ UNCHANGED <<parserVars, rankVars, laterVars, isLoading, model, inputSchema, initialValues,
                 cloneFetch, values, edited>>

\* the POST settles
SubmitCompletes ==
  /\ isSubmitting
  /\ isSubmitting' = FALSE
  /\ UNCHANGED <<parserVars, rankVars, laterVars, isLoading, model, inputSchema, initialValues,
                 cloneFetch, values, edited, posted>>

NextPage ==
  \/ FetchModelCompletes
  \/ FetchCloneCompletes
  \/ HandleChange
  \/ HandleReset
  \/ HandleSubmit
  \/ SubmitCompletes

SpecPage == InitPage /\ [][NextPage]_vars

\* C11: on the page opened with a clone id, once the model fetch and the
\* clone fetch have both completed, in either order, and before any user
\* edit, the form's value for every field is the cloned input's value when
\* the clone has one and the schema default otherwise.
C11_CloneValuesOverDefaults ==
  (formMounted /\ cloneFetch = "done" /\ ~edited) =>
    \A i \in DOMAIN fields :
      LET name == fields[i].name
          expected == Spread(defaults, initialValues)
      IN  /\ Has(values, name) <=> Has(expected, name)
          /\ Has(values, name) => values[name] = expected[name]

\* C12: a prediction is posted only with an input for which validateInput
\* against the model's input schema returns valid.
C12_PostedInputIsValid ==
  posted # <<>> => validateInput(posted[1], inputSchema).valid

(***************************************************************************)
(* The ranking engine (src/unnamed/part_016).  A Model record is a         *)
(* function over the keys it holds: owner and name (strings), description  *)
(* (<<>> for null, else <<string>>), and the optional run_count,           *)
(* cover_image_url and latest_version.  Instants are whole days:           *)
(* created_at holds the day new Date(created_at).getTime() denotes, and    *)
(* the clock the day Date.now() returns.  Scores are in thousandths.       *)
(***************************************************************************)
VERIFIED_OWNERS ==
  { <<"s","t","a","b","i","l","i","t","y","-","a","i">>,
    <<"b","l","a","c","k","-","f","o","r","e","s","t","-","l","a","b","s">>,
    <<"m","e","t","a">>,
    <<"o","p","e","n","a","i">>,
    <<"a","n","t","h","r","o","p","i","c">>,
    <<"g","o","o","g","l","e">>,
    <<"b","y","t","e","d","a","n","c","e">>,
    <<"t","e","n","c","e","n","t">>,
    <<"a","l","i","b","a","b","a">>,
    <<"m","i","c","r","o","s","o","f","t">>,
    <<"n","v","i","d","i","a">>,
    <<"s","a","l","e","s","f","o","r","c","e">>,
    <<"h","u","g","g","i","n","g","f","a","c","e">>,
    <<"d","e","e","p","m","i","n","d">>,
    <<"t","o","g","e","t","h","e","r">>,
    <<"m","i","s","t","r","a","l","a","i">>,
    <<"r","e","p","l","i","c","a","t","e">>,
    <<"z","s","x","k","i","b">>,
    <<"l","u","c","a","t","a","c","o">>,
    <<"c","j","w","b","w">> }

\* floor(1000 * log10(d)) for d = 1..9
digitLog == <<0, 301, 477, 602, 698, 778, 845, 903, 954>>

\* Math.log10(n) in thousandths, n >= 1; to the thousandth for n = d * 10^k
\* with one leading digit d, which is what the run counts scored here give
RECURSIVE log10Thousandths(_)
log10Thousandths(n) ==
  IF n < 10 THEN digitLog[n] ELSE 1000 + log10Thousandths(n \div 10)

\* model.run_count || 0
runCountOf(m) == IF Has(m, "run_count") THEN m.run_count ELSE 0

\* a run-count term that falls as the run count grows
runCountBonus_Decreasing(runCount) ==
  IF runCount > 0 THEN 5 * log10Thousandths(10) - runCount ELSE 0

runCountBonus(runCount) ==
  IF runCount > 0 THEN 5 * log10Thousandths(runCount + 1) ELSE 0

ownerBonus(m) ==
  IF toLowerCase(m.owner) \in VERIFIED_OWNERS THEN 15000 ELSE 0

\* the bonus for a version created daysSinceUpdate days before now
recencyBonus(m, now) ==
  IF Has(m, "latest_version") /\ Has(m.latest_version, "created_at")
  THEN LET daysSinceUpdate == now - m.latest_version.created_at
       IN  IF daysSinceUpdate < 7 THEN 5000
           ELSE IF daysSinceUpdate < 30 THEN 3000
           ELSE IF daysSinceUpdate < 90 THEN 1000
           ELSE 0
  ELSE 0

coverBonus(m) ==
  IF Has(m, "cover_image_url") /\ m.cover_image_url # <<>> THEN 2000 ELSE 0

descriptionBonus(m) ==
  IF m.description # <<>> /\ Len(m.description[1]) > 20 THEN 1000 ELSE 0

\* calculateModelScore(model), run when Date.now() returns `now`
calculateModelScore(m, now) ==
  runCountBonus(runCountOf(m)) + ownerBonus(m) + recencyBonus(m, now)
    + coverBonus(m) + descriptionBonus(m)

(***************************************************************************)
(* Calls of calculateModelScore on one record, under varying run counts,   *)
(* while the clock moves on.                                               *)
(***************************************************************************)
MaxCalls == 2

OwnerMeta == <<"M","e","t","a">>

OwnerZz == <<"z","z">>

NameAb == <<"a","b">>

\* 21 characters
TextLong == <<"a"," ","m","o","d","e","l"," ","t","h","a","t"," ",
              "d","r","a","w","s"," ","i","t">>

TextShort == <<"a","b"," ","k","i","t">>

\* the record scored, run_count left out
ScoreSubjects ==
  { Spread(Spread([owner |-> o, name |-> NameAb, description |-> d], c), v) :
      o \in {OwnerMeta, OwnerZz},
      d \in {<<>>, <<TextShort>>, <<TextLong>>},
      c \in OneOfKey("cover_image_url", {<<"u">>}),
      v \in OneOfKey("latest_version", {[created_at |-> 0]}) }

RunCountChoices == OneOfKey("run_count", {0, 1, 9})

\* the days the clock shows: either side of each recency threshold
Instants == {0, 6, 7, 30, 90}

InitScore ==
  /\ schema = <<>>
  /\ input = EmptyObject
  /\ called = "none"
  /\ fields = <<>>
  /\ defaults = EmptyObject
  /\ validation = NoValidation
  /\ PageInit
  /\ LaterInit
  /\ clock = 0
  /\ subject \in ScoreSubjects
  /\ calls = <<>>
  /\ models = <<>>
  /\ query = <<>>
  /\ scored = <<>>
  /\ result = <<>>
  /\ returnsInput = FALSE

\* time passes
Tick ==
  /\ \E d \in Instants : d > clock /\ clock' = d
  /\ UNCHANGED <<parserVars, pageVars, laterVars, subject, calls, models, query, scored,
                 result,
                 returnsInput>>

\* one call of calculateModelScore on the record with some run count
CalculateModelScore ==
  /\ Len(calls) < MaxCalls
  /\ \E r \in RunCountChoices :
       LET m == Spread(subject, r)
       IN  calls' = Append(calls, [model |-> m, at |-> clock,
                                   score |-> calculateModelScore(m, clock)])
  /\ UNCHANGED <<parserVars, pageVars, laterVars, clock, subject, models, query, scored,
                 result,
                 returnsInput>>

NextScore == Tick \/ CalculateModelScore

SpecScore == InitScore /\ [][NextScore]_vars

\* C13: two calls of calculateModelScore with the same model record return
\* the same score, whenever each call is made.
C13_ScoreIsDeterministic ==
  \A i, j \in DOMAIN calls :
    calls[i].model = calls[j].model => calls[i].score = calls[j].score

\* C14: of two records identical except for run_count (absent counted as
\* 0), scored at the same instant, the one with the higher run_count has a
\* score greater than or equal to the other's.
C14_MonotoneInRunCount ==
  \A i, j \in DOMAIN calls :
    LET a == calls[i].model
        b == calls[j].model
        runs(m) == IF "run_count" \in DOMAIN m THEN m.run_count ELSE 0
    IN  ( /\ calls[i].at = calls[j].at
          /\ Unset(a, {"run_count"}) = Unset(b, {"run_count"})
          /\ runs(a) > runs(b) )
          => calls[i].score >= calls[j].score

\* C14 witness: at one instant the record with 9 runs outscores the same
\* record with 1 run, which outscores it with no run_count
C14_Witness ==
  \E i, j \in DOMAIN calls :
    /\ calls[i].at = calls[j].at
    /\ "run_count" \in DOMAIN calls[i].model /\ "run_count" \in DOMAIN calls[j].model
    /\ calls[i].model.run_count = 9 /\ calls[j].model.run_count = 1
    /\ calls[i].score > calls[j].score
    /\ calls[j].score > calculateModelScore(subject, calls[j].at)

(***************************************************************************)
(* rankModels and searchAndRankModels.  An array is a record [id, items]:  *)
(* the id tells array objects apart, so that a sort in place and a copy    *)
(* can be told from each other.  A comparator over the elements of an      *)
(* array is the matrix of its results, cmp[i][j] = comparefn(items[i],     *)
(* items[j]).                                                              *)
(***************************************************************************)
inputArray(ms) == [id |-> 0, items |-> ms]

\* models.sort(...): no copy, the receiver is the argument itself
spreadCopy_Alias(arr) == arr

\* [...models]: a new array with the same elements
spreadCopy(arr) == [id |-> arr.id + 1, items |-> arr.items]

\* a consistent comparator, as Array.prototype.sort requires: the elements
\* fall into equivalence classes that are totally ordered
isConsistent(cmp) ==
  LET n == DOMAIN cmp
  IN  /\ \A i \in n : cmp[i][i] = 0
      /\ \A i, j \in n : /\ cmp[i][j] < 0 <=> cmp[j][i] > 0
                         /\ cmp[i][j] = 0 <=> cmp[j][i] = 0
      /\ \A i, j, k \in n :
           /\ (cmp[i][j] = 0 /\ cmp[j][k] = 0) => cmp[i][k] = 0
           /\ (cmp[i][j] < 0 /\ cmp[j][k] < 0) => cmp[i][k] < 0
           /\ (cmp[i][j] < 0 /\ cmp[j][k] = 0) => cmp[i][k] < 0
           /\ (cmp[i][j] = 0 /\ cmp[j][k] < 0) => cmp[i][k] < 0

\* the orders Array.prototype.sort may leave the elements in: the stable
\* sorted order under a consistent comparator, an implementation-defined
\* order (any permutation) otherwise
sortOrders(cmp) ==
  LET n == Len(cmp)
  IN  IF isConsistent(cmp)
      THEN {p \in Permutations(1..n) :
              \A i, j \in 1..n :
                i < j => \/ cmp[p[i]][p[j]] < 0
                         \/ cmp[p[i]][p[j]] = 0 /\ p[i] < p[j]}
      ELSE Permutations(1..n)

\* arr.sort(comparefn): sorts the receiver in place and returns it
sortInPlace(arr, cmp) ==
  { [id |-> arr.id, items |-> [i \in DOMAIN arr.items |-> arr.items[p[i]]]] :
      p \in sortOrders(cmp) }

\* the comparator of rankModels, on scores only
compareRank_ScoreOnly(a, b, now) ==
  calculateModelScore(b, now) - calculateModelScore(a, now)

compareRank(a, b, now) ==
  LET scoreA == calculateModelScore(a, now)
      scoreB == calculateModelScore(b, now)
  IN  IF scoreB # scoreA THEN scoreB - scoreA
      ELSE runCountOf(b) - runCountOf(a)

rankOrder(ms, now) ==
  [i \in DOMAIN ms |-> [j \in DOMAIN ms |-> compareRank(ms[i], ms[j], now)]]

\* rankModels(models): the arrays it may return
rankModels(arr, now) ==
  LET copy == spreadCopy(arr)
  IN  sortInPlace(copy, rankOrder(copy.items, now))

startsWith(s, q) == Len(q) <= Len(s) /\ SubSeq(s, 1, Len(q)) = q

Larger(a, b) == IF a >= b THEN a ELSE b

\* a relevance that adds the weights up
relevance_Sum(m, q) ==
  LET name == toLowerCase(m.name)
      owner == toLowerCase(m.owner)
      desc == toLowerCase(IF m.description # <<>> THEN m.description[1] ELSE <<>>)
  IN  (IF name = q THEN 100 ELSE 0) + (IF startsWith(name, q) THEN 80 ELSE 0)
        + (IF includes(name, q) THEN 60 ELSE 0) + (IF owner = q THEN 90 ELSE 0)
        + (IF includes(owner, q) THEN 40 ELSE 0) + (IF includes(desc, q) THEN 20 ELSE 0)

\* the relevance searchAndRankModels gives a model for the query q
relevance(m, q) ==
  LET name == toLowerCase(m.name)
      owner == toLowerCase(m.owner)
      desc == toLowerCase(IF m.description # <<>> THEN m.description[1] ELSE <<>>)
      byName == IF name = q THEN 100
                ELSE IF startsWith(name, q) THEN 80
                ELSE IF includes(name, q) THEN 60
                ELSE 0
      byOwner == IF owner = q THEN Larger(byName, 90)
                 ELSE IF includes(owner, q) THEN Larger(byName, 40)
                 ELSE byName
  IN  IF includes(desc, q) THEN Larger(byOwner, 20) ELSE byOwner

\* models.map(model => ({ model, relevance }))
scoredOf(ms, q) ==
  [i \in DOMAIN ms |-> [model |-> ms[i], relevance |-> relevance(ms[i], q)]]

\* the comparator of searchAndRankModels, on { model, relevance } entries
compareSearch(a, b, now) ==
  LET gap == a.relevance - b.relevance
  IN  IF gap >= 20 \/ gap <= -20 THEN b.relevance - a.relevance
      ELSE calculateModelScore(b.model, now) - calculateModelScore(a.model, now)

searchOrder(es, now) ==
  [i \in DOMAIN es |-> [j \in DOMAIN es |-> compareSearch(es[i], es[j], now)]]

isMatch(e) == e.relevance > 0

\* the query after toLowerCase().trim()
normalised(qry) == trim(toLowerCase(qry))

\* a search that ranks by the query also when the query is blank
searchAndRankModels_NoShortCircuit(arr, qry, now) ==
  LET matching == [id |-> arr.id + 2,
                   items |-> SelectSeq(scoredOf(arr.items, normalised(qry)), isMatch)]
  IN  { [id |-> arr.id + 3, items |-> [i \in DOMAIN o.items |-> o.items[i].model]] :
          o \in sortInPlace(matching, searchOrder(matching.items, now)) }

\* searchAndRankModels(models, query): the arrays it may return; map and
\* filter each build a new array, the sort is on the filtered one
searchAndRankModels(arr, qry, now) ==
  IF trim(qry) = <<>> THEN rankModels(arr, now)
  ELSE LET matching == [id |-> arr.id + 2,
                        items |-> SelectSeq(scoredOf(arr.items, normalised(qry)), isMatch)]
       IN  { [id |-> arr.id + 3, items |-> [i \in DOMAIN o.items |-> o.items[i].model]] :
               o \in sortInPlace(matching, searchOrder(matching.items, now)) }

(***************************************************************************)
(* One call of rankModels or searchAndRankModels on an array of models.    *)
(***************************************************************************)
MaxModels == 3

NameAbc == <<"a","b","c">>

NameCab == <<"c","a","b">>

OwnerXab == <<"x","A","b">>

\* the records an array holds; for the query 'ab':
\*   name 'ab'                        relevance 100, score 0
\*   owner 'ab', 9 runs               relevance 90,  score 5
\*   name 'abc', 99 runs              relevance 80,  score 10
\*   name 'cab', verified owner, description with 'ab'
\*                                    relevance 60,  score 15
\*   owner 'xAb', 9 runs, version of day 0
\*                                    relevance 40,  score 10 before day 7
\*   description with 'ab'            relevance 20,  score 0
\*   a long description without 'ab'  relevance 0,   score 1
RankRecords ==
  { [owner |-> OwnerZz, name |-> NameAb, description |-> <<>>],
    [owner |-> NameAb, name |-> OwnerZz, description |-> <<>>, run_count |-> 9],
    [owner |-> OwnerZz, name |-> NameAbc, description |-> <<>>, run_count |-> 99],
    [owner |-> OwnerMeta, name |-> NameCab, description |-> <<TextShort>>],
    [owner |-> OwnerXab, name |-> OwnerZz, description |-> <<>>, run_count |-> 9,
     latest_version |-> [created_at |-> 0]],
    [owner |-> OwnerZz, name |-> OwnerZz, description |-> <<TextShort>>],
    [owner |-> OwnerZz, name |-> OwnerZz, description |-> <<TextLong>>] }

\* blank, whitespace only, 'ab' in mixed case with spaces around, no match
Queries == { <<>>, <<" ">>, <<"a","b">>, <<" ","A","b"," ">>, <<"q">> }

InitRank ==
  /\ schema = <<>>
  /\ input = EmptyObject
  /\ called = "none"
  /\ fields = <<>>
  /\ defaults = EmptyObject
  /\ validation = NoValidation
  /\ PageInit
  /\ LaterInit
  /\ clock \in {0, 7}
  /\ subject = EmptyObject
  /\ calls = <<>>
  /\ \E k \in 0..MaxModels : models \in SeqsOfLen(RankRecords, k)
  /\ query \in Queries
  /\ scored = <<>>
  /\ result = <<>>
  /\ returnsInput = FALSE

\* rankModels(models): the returned array, and the input array as the call
\* leaves it
RankModels ==
  /\ called = "none"
  /\ called' = "rankModels"
  /\ \E out \in rankModels(inputArray(models), clock) :
       /\ result' = out.items
       /\ returnsInput' = (out.id = inputArray(models).id)
       /\ models' = IF out.id = inputArray(models).id THEN out.items ELSE models
  /\ UNCHANGED <<schema, input, fields, defaults, validation, pageVars, laterVars,
                 clock, subject, calls, query, scored>>

\* searchAndRankModels(models, query)
SearchAndRankModels ==
  /\ called = "none"
  /\ called' = "searchAndRankModels"
  /\ scored' = IF trim(query) = <<>> THEN <<>>
               ELSE scoredOf(models, normalised(query))
  /\ \E out \in searchAndRankModels(inputArray(models), query, clock) :
       /\ result' = out.items
       /\ returnsInput' = (out.id = inputArray(models).id)
       /\ models' = IF out.id = inputArray(models).id THEN out.items ELSE models
  /\ UNCHANGED <<schema, input, fields, defaults, validation, pageVars, laterVars,
                 clock, subject, calls, query>>

NextRank == RankModels \/ SearchAndRankModels

SpecRank == InitRank /\ [][NextRank]_vars

\* C15: in the output of rankModels, of every two models the earlier one has
\* a score greater than or equal to the later one's, and with equal scores
\* a run_count (absent counted as 0) greater than or equal to the later
\* one's.
C15_RankedByScoreThenRuns ==
  called = "rankModels" =>
    \A i, j \in DOMAIN result :
      i < j =>
        LET earlier == calculateModelScore(result[i], clock)
            later == calculateModelScore(result[j], clock)
        IN  /\ earlier >= later
            /\ earlier = later => runCountOf(result[i]) >= runCountOf(result[j])

\* C15 witness: rankModels moved a model with 99 runs ahead of a model of
\* equal score with 9 runs, and both behind a model of higher score that the
\* input lists last
C15_Witness ==
  /\ called = "rankModels"
  /\ Len(result) = 3 /\ result # models
  /\ result[1] = models[3]
  /\ calculateModelScore(result[1], clock) > calculateModelScore(result[2], clock)
  /\ calculateModelScore(result[2], clock) = calculateModelScore(result[3], clock)
  /\ runCountOf(result[2]) = 99 /\ runCountOf(result[3]) = 9
  /\ result[2] = models[2] /\ result[3] = models[1]

\* C16: rankModels and searchAndRankModels never change their input: after
\* the call the input array holds the same records in the same order, and
\* the array returned is not the input array.
C16_InputNeverChanged == [][models' = models /\ ~returnsInput']_vars

\* C16 witness: a search for 'ab' returned three of the input's records in
\* another order than the input lists them, from a new array
C16_Witness ==
  /\ called = "searchAndRankModels" /\ trim(query) # <<>>
  /\ Len(models) = 3 /\ Len(result) = 3
  /\ result[1] = models[3] /\ result[3] = models[1] /\ result[1] # result[3]
  /\ ~returnsInput

nonBlankSearch == called = "searchAndRankModels" /\ trim(query) # <<>>

\* C17: in the output of searchAndRankModels for a non-empty query, of every
\* two returned models whose relevances differ by 20 or more the one with
\* the higher relevance comes first, whatever else is in the list.
C17_RelevanceGapOrders ==
  nonBlankSearch =>
    \A i, j \in DOMAIN result :
      relevance(result[i], normalised(query))
        - relevance(result[j], normalised(query)) >= 20 => i < j

\* C18: in the output of searchAndRankModels for a non-empty query, of every
\* two returned models whose relevances differ by less than 20 the one with
\* the strictly higher score comes first, whatever else is in the list.
C18_NearTieOrdersByScore ==
  nonBlankSearch =>
    \A i, j \in DOMAIN result :
      LET gap == relevance(result[i], normalised(query))
                   - relevance(result[j], normalised(query))
      IN  ( /\ gap < 20 /\ gap > -20
            /\ calculateModelScore(result[i], clock)
                 > calculateModelScore(result[j], clock) ) => i < j

\* the weights that apply to a model for the query q, as C19 lists them
weightsOf(m, q) ==
  LET name == toLowerCase(m.name)
      owner == toLowerCase(m.owner)
      desc == toLowerCase(IF m.description # <<>> THEN m.description[1] ELSE <<>>)
  IN  {w \in {100, 90, 80, 60, 40, 20} :
         \/ w = 100 /\ name = q
         \/ w = 80 /\ startsWith(name, q)
         \/ w = 60 /\ includes(name, q)
         \/ w = 90 /\ owner = q
         \/ w = 40 /\ includes(owner, q)
         \/ w = 20 /\ includes(desc, q)}

maxWeight(m, q) == Maximum(weightsOf(m, q) \cup {0})

occurrences(ms, m) == Cardinality({i \in DOMAIN ms : ms[i] = m})

\* C19: for a non-empty query each model's relevance is the maximum of the
\* weights that apply to it, and searchAndRankModels returns exactly the
\* input models whose relevance is greater than 0.
C19_RelevanceIsMaxWeight ==
  nonBlankSearch =>
    LET q == normalised(query)
    IN  /\ Len(scored) = Len(models)
        /\ \A i \in DOMAIN scored :
             /\ scored[i].model = models[i]
             /\ scored[i].relevance = maxWeight(models[i], q)
        /\ \A m \in RankRecords :
             occurrences(result, m) =
               IF maxWeight(m, q) > 0 THEN occurrences(models, m) ELSE 0

\* C19 witness: a search where a model has the weights 60 and 20 and the
\* relevance 60, a model with the weights 100, 80 and 60 is returned too, and
\* a model without any weight is dropped
C19_Witness ==
  /\ nonBlankSearch
  /\ \E i, j, k \in DOMAIN models :
       /\ weightsOf(models[i], normalised(query)) = {60, 20}
       /\ scored[i].relevance = 60
       /\ weightsOf(models[j], normalised(query)) = {100, 80, 60}
       /\ weightsOf(models[k], normalised(query)) = {}
       /\ Range(result) = {models[i], models[j]}

\* C20: for a query that is empty or only whitespace, searchAndRankModels
\* returns the sequence rankModels returns, with no model filtered out.
C20_BlankQueryIsRank ==
  (called = "searchAndRankModels" /\ trim(query) = <<>>) =>
    /\ Len(result) = Len(models)
    /\ \A o \in rankModels(inputArray(models), clock) : result = o.items

\* C20 witness: a whitespace-only query returned all three models, ranked
\* into another order than the input's
C20_Witness ==
  /\ called = "searchAndRankModels" /\ query = <<" ">>
  /\ Len(result) = 3 /\ result # models
  /\ \A m \in RankRecords : occurrences(result, m) = occurrences(models, m)

(***************************************************************************)
(* String properties: textarea and file fields                             *)
(***************************************************************************)
holdsOneOf(text, keywords) ==
  \E i \in DOMAIN keywords : includes(toLowerCase(text), keywords[i])

\* the words that mark a media field
mediaKeywords ==
  fileKeywords \o << <<"s","o","u","n","d">>, <<"m","u","s","i","c">>,
                     <<"m","o","v","i","e">> >>

\* the property resolves to a string-typed node without enum values
isPlainString(r) ==
  /\ "type" \in DOMAIN r /\ r.type = "string"
  /\ ~("enum" \in DOMAIN r /\ r.enum # <<>>)

textsOf(name, r) ==
  {name, IF "title" \in DOMAIN r THEN r.title ELSE <<>>,
         IF "description" \in DOMAIN r THEN r.description ELSE <<>>}

\* C22: a string-typed property without enum becomes a 'textarea' field
\* whenever its property name, its title or its description holds one of
\* the textarea keywords, also when only the name does, or its maxLength
\* exceeds 200.
C22_KeywordOrLongIsTextarea ==
  parsed =>
    \A p \in PropertyNodes :
      LET r == resolveCompositeSchema(p.node)
      IN  ( /\ isPlainString(r)
            /\ \/ \E t \in textsOf(p.name, r) : holdsOneOf(t, textareaKeywords)
               \/ "maxLength" \in DOMAIN r /\ r.maxLength > 200 )
            => \A f \in FieldsNamed(p.name) : f.type = "textarea"

\* C23: a string-typed property with format 'uri' whose name, title and
\* description hold no media keyword and no textarea keyword (and whose
\* maxLength, if any, is at most 200) becomes a 'file' field that accepts
\* images only.
C23_PlainUriAcceptsImages ==
  parsed =>
    \A p \in PropertyNodes :
      LET r == resolveCompositeSchema(p.node)
      IN  ( /\ isPlainString(r)
            /\ "format" \in DOMAIN r /\ r.format = "uri"
            /\ ~("maxLength" \in DOMAIN r /\ r.maxLength > 200)
            /\ \A t \in textsOf(p.name, r) :
                 ~holdsOneOf(t, mediaKeywords) /\ ~holdsOneOf(t, textareaKeywords) )
            => \A f \in FieldsNamed(p.name) :
                 f.type = "file" /\ "accept" \in DOMAIN f /\ f.accept = AcceptImage

(***************************************************************************)
(* The comparator of searchAndRankModels as an ordering                    *)
(***************************************************************************)
\* the comparator puts entry a before entry b
ordersBefore(a, b) == compareSearch(a, b, clock) < 0

\* C28: the comparator of searchAndRankModels is a consistent ordering: for
\* all scored models a, b, c, if it orders a before b and b before c then it
\* does not order c before a.
C28_ComparatorHasNoCycle ==
  nonBlankSearch =>
    \A i, j, k \in DOMAIN scored :
      (ordersBefore(scored[i], scored[j]) /\ ordersBefore(scored[j], scored[k]))
        => ~ordersBefore(scored[k], scored[i])

(***************************************************************************)
(* fetchWithRetry (src/lib/replicate.ts).  A response is [status, body]:   *)
(* body is <<v>> when the body can be read and parsed to v, <<>> when      *)
(* reading or parsing it rejects.  A network failure, where fetch itself   *)
(* rejects, has status 0.  An error is [replicate, status]: replicate      *)
(* tells a ReplicateError from any other error.                            *)
(***************************************************************************)
MAX_RETRIES == 3

NetworkFailure == [status |-> 0, body |-> <<>>]

\* what a request may be answered with
Answers ==
  { NetworkFailure,
    [status |-> 200, body |-> <<"a">>], [status |-> 200, body |-> <<"b">>],
    [status |-> 200, body |-> <<>>],
    [status |-> 429, body |-> <<"a">>],
    [status |-> 404, body |-> <<"a">>], [status |-> 404, body |-> <<>>],
    [status |-> 500, body |-> <<"a">>] }

\* response.ok
isOk(r) == r.status >= 200 /\ r.status <= 299

OtherError == [replicate |-> FALSE, status |-> 0]

ReplicateError(status) == [replicate |-> TRUE, status |-> status]

\* a catch clause that retries every error
isNonRetryable_Never(err) == FALSE

\* the errors the catch clause rethrows at once
isNonRetryable(err) ==
  err.replicate /\ err.status >= 400 /\ err.status < 500 /\ err.status # 429

\* the catch clause: rethrow, or sleep and go round again
catchClause(err, att, retries) ==
  IF isNonRetryable(err) THEN [do |-> "throw", error |-> err]
  ELSE IF att < retries THEN [do |-> "sleep"]
  ELSE [do |-> "throw", error |-> err]

\* the body of the loop once the request is answered with r
onAnswer(r, att, retries) ==
  IF r = NetworkFailure THEN catchClause(OtherError, att, retries)
  ELSE IF r.status = 429
  THEN IF att < retries THEN [do |-> "sleep"]
       ELSE catchClause(ReplicateError(429), att, retries)
  ELSE IF ~isOk(r)
  THEN IF r.body = <<>> THEN catchClause(OtherError, att, retries)
       ELSE catchClause(ReplicateError(r.status), att, retries)
  ELSE IF r.body = <<>> THEN catchClause(OtherError, att, retries)
  ELSE [do |-> "return", body |-> r.body[1]]

InitRetry ==
  /\ ParserIdle
  /\ PageInit
  /\ RankInit
  /\ HookIdle
  /\ PollingIdle
  /\ StoreIdle
  /\ attempt = 0
  /\ sent = 0
  /\ responses = <<>>
  /\ phase = "called"
  /\ outcome = [kind |-> "none"]

\* the call reads the API token, which throws when none is configured, and
\* enters the loop
EnterLoop ==
  /\ phase = "called"
  /\ \E configured \in BOOLEAN :
       IF configured
       THEN phase' = "loop" /\ UNCHANGED outcome
       ELSE phase' = "done" /\ outcome' = [kind |-> "thrown", error |-> OtherError]
  /\ UNCHANGED <<parserVars, pageVars, rankVars, hookVars, pollVars, storeVars, attempt, sent, responses>>

\* the loop test and fetch(url, fetchOptions)
SendRequest ==
  /\ phase = "loop"
  /\ IF attempt <= MAX_RETRIES
     THEN /\ sent' = sent + 1
          /\ phase' = "awaiting"
          /\ UNCHANGED outcome
     ELSE /\ phase' = "done"
          /\ outcome' = [kind |-> "thrown", error |-> ReplicateError(500)]
          /\ UNCHANGED sent
  /\ UNCHANGED <<parserVars, pageVars, rankVars, hookVars, pollVars, storeVars, attempt, responses>>

\* the request is answered and the rest of the loop body runs
ReceiveAnswer ==
  /\ phase = "awaiting"
  /\ \E r \in Answers :
       /\ responses' = Append(responses, r)
       /\ LET next == onAnswer(r, attempt, MAX_RETRIES)
          IN  CASE next.do = "return" ->
                     phase' = "done" /\ outcome' = [kind |-> "returned", body |-> next.body]
                [] next.do = "throw" ->
                     phase' = "done" /\ outcome' = [kind |-> "thrown", error |-> next.error]
                [] next.do = "sleep" ->
                     phase' = "sleeping" /\ UNCHANGED outcome
  /\ UNCHANGED <<parserVars, pageVars, rankVars, hookVars, pollVars, storeVars, attempt, sent>>

\* the sleep ends: continue, with attempt++
SleepEnds ==
  /\ phase = "sleeping"
  /\ attempt' = attempt + 1
  /\ phase' = "loop"
  /\ UNCHANGED <<parserVars, pageVars, rankVars, hookVars, pollVars, storeVars, sent, responses, outcome>>

NextRetry == EnterLoop \/ SendRequest \/ ReceiveAnswer \/ SleepEnds

SpecRetry == InitRetry /\ [][NextRetry]_vars

\* every request is answered or fails, and every timer fires
SpecRetryFair == SpecRetry /\ WF_vars(NextRetry)

isClientError(r) == r.status >= 400 /\ r.status < 500 /\ r.status # 429

isRetried(r) == r = NetworkFailure \/ r.status = 429 \/ r.status >= 500

lastAnswer == responses[Len(responses)]

\* at most MAX_RETRIES + 1 requests, each answer belonging to one of them
withinBudget == sent <= MAX_RETRIES + 1 /\ Len(responses) <= sent

\* the call returned the body of the first response in `successes`
returnsFirstOf(successes) ==
  outcome.kind = "returned" =>
    /\ successes # {}
    /\ responses[Minimum(successes)].body = <<outcome.body>>

\* no request follows a response in `final`
nothingFollows(final) ==
  \A i \in final : i = Len(responses) /\ sent = i /\ phase = "done"

\* the call goes on after an answer in `retried` while requests are left
goesOnAfter(retried) ==
  (responses # <<>> /\ Len(responses) = sent /\ sent <= MAX_RETRIES
     /\ Len(responses) \in retried) => phase # "done"

MaxPageLen == 2

\* the longest models list followed
MaxListLen == 3

\* the URLs the model browser builds from its filters
Urls == {"/api/models", "/api/models/search"}

ListedModels == {[owner |-> "o", name |-> n] : n \in {"a", "b"}}

\* the values of the next field of a response: null, "", " " and a cursor
NextCursors == {<<>>, <<<<>>>>, <<<<" ">>>>, <<<<"c">>>>}

PagesUpTo(n) ==
  UNION {[1..k -> ListedModels] : k \in 0..n}

\* what a fetch of fetchModels comes to: a thrown error (network failure,
\* non-OK status, unparsable body), a body that parses to null, or a page
HookAnswers ==
  {[kind |-> "error"], [kind |-> "null"]}
    \cup {[kind |-> "page", results |-> r, next |-> c] :
            r \in PagesUpTo(MaxPageLen), c \in NextCursors}

\* `${model.owner}/${model.name}`
idOf(m) == m.owner \o "/" \o m.name

\* cursor && typeof cursor === 'string' && cursor.trim().length > 0
validCursor(c) == c # <<>> /\ Len(trim(c[1])) > 0

nextPageOf(data) == IF validCursor(data.next) THEN data.next ELSE <<>>

inFlight_Never(h) == FALSE

\* isRequestInFlight.current, the first guard of loadMore and of refresh
inFlight(h) == h.isRequestInFlight

\* fetchModels(cursor) up to its fetch: the request that leaves
requestOf(h, by, cursor) ==
  [by |-> by, url |-> h.fetchUrl,
   cursor |-> IF validCursor(cursor) THEN cursor ELSE <<>>]

\* refresh() up to its await
refreshCall(h) ==
  IF inFlight(h) THEN h
  ELSE [h EXCEPT !.isRequestInFlight = TRUE, !.isLoading = TRUE,
                 !.error = <<>>, !.loadedIds = {},
                 !.requests = Append(@, requestOf(h, "refresh", <<>>))]

\* loadMore() up to its await
loadMoreCall(h) ==
  IF inFlight(h) THEN h
  ELSE IF h.isLoadingMore THEN h
  ELSE IF ~h.hasMore THEN h
  ELSE IF ~validCursor(h.nextCursor) THEN [h EXCEPT !.hasMore = FALSE]
  ELSE [h EXCEPT !.isRequestInFlight = TRUE, !.isLoadingMore = TRUE,
                 !.requests = Append(@, requestOf(h, "loadMore", h.nextCursor))]

\* the filter of loadMore: the models whose id is not loaded yet, each id
\* being added as it is met
RECURSIVE filterNew(_, _)
filterNew(results, ids) ==
  IF results = <<>> THEN [kept |-> <<>>, ids |-> ids]
  ELSE IF idOf(Head(results)) \in ids
       THEN filterNew(Tail(results), ids)
       ELSE LET rest == filterNew(Tail(results), ids \cup {idOf(Head(results))})
            IN  [kept |-> <<Head(results)>> \o rest.kept, ids |-> rest.ids]

\* refresh() from its await on, with its finally clause
refreshAnswered(h, req, answer) ==
  LET done == [h EXCEPT !.isLoading = FALSE, !.isRequestInFlight = FALSE,
                        !.answeredUrl = <<req.url>>]
  IN  CASE answer.kind = "error" ->
             [done EXCEPT !.error = <<"Request failed">>, !.hasMore = FALSE]
        [] answer.kind = "null" -> done
        [] answer.kind = "page" ->
             [done EXCEPT
                !.loadedIds = @ \cup {idOf(answer.results[i]) : i \in DOMAIN answer.results},
                !.models = answer.results,
                !.nextCursor = nextPageOf(answer),
                !.hasMore = nextPageOf(answer) # <<>>]

\* loadMore() from its await on, with its finally clause
loadMoreAnswered(h, answer) ==
  LET done == [h EXCEPT !.isLoadingMore = FALSE, !.isRequestInFlight = FALSE]
  IN  CASE answer.kind = "error" -> [done EXCEPT !.hasMore = FALSE]
        [] answer.kind = "null" -> done
        [] answer.kind = "page" ->
             LET new == filterNew(answer.results, h.loadedIds)
             IN  [done EXCEPT
                    !.loadedIds = new.ids,
                    !.models = @ \o new.kept,
                    !.nextCursor = nextPageOf(answer),
                    !.hasMore = nextPageOf(answer) # <<>>]

removeAt(seq, i) == [k \in 1..(Len(seq) - 1) |-> IF k < i THEN seq[k] ELSE seq[k + 1]]

InitHook ==
  /\ ParserIdle
  /\ PageInit
  /\ RankInit
  /\ RetryInit
  /\ PollingIdle
  /\ StoreIdle
  /\ \E url \in Urls : hook = hookState(url)

\* the first render: the effect calls refresh()
Mount ==
  /\ ~hook.mounted
  /\ hook' = refreshCall([hook EXCEPT !.mounted = TRUE])
  /\ UNCHANGED <<parserVars, pageVars, rankVars, retryVars, pollVars, storeVars>>

\* a caller invokes the refresh the hook returns
Refresh ==
  /\ hook.mounted
  /\ hook' = refreshCall(hook)
  /\ UNCHANGED <<parserVars, pageVars, rankVars, retryVars, pollVars, storeVars>>

\* a caller invokes the loadMore the hook returns
LoadMore ==
  /\ hook.mounted
  /\ hook' = loadMoreCall(hook)
  /\ UNCHANGED <<parserVars, pageVars, rankVars, retryVars, pollVars, storeVars>>

\* the filters change: the hook renders with another fetchUrl and its effect
\* runs again
SetFetchUrl ==
  /\ hook.mounted
  /\ \E url \in Urls \ {hook.fetchUrl} :
       hook' = refreshCall([hook EXCEPT !.fetchUrl = url, !.currentUrlRef = url])
  /\ UNCHANGED <<parserVars, pageVars, rankVars, retryVars, pollVars, storeVars>>

\* one of the fetches under way is answered and its caller runs to its end
RequestCompletes ==
  /\ hook.requests # <<>>
  /\ \E i \in DOMAIN hook.requests, answer \in HookAnswers :
       LET req  == hook.requests[i]
           rest == [hook EXCEPT !.requests = removeAt(@, i)]
       IN  hook' = IF req.by = "refresh"
                   THEN refreshAnswered(rest, req, answer)
                   ELSE loadMoreAnswered(rest, answer)
  /\ Len(hook'.models) <= MaxListLen
  /\ UNCHANGED <<parserVars, pageVars, rankVars, retryVars, pollVars, storeVars>>

NextHook == Mount \/ Refresh \/ LoadMore \/ SetFetchUrl \/ RequestCompletes

SpecHook == InitHook /\ [][NextHook]_vars

\* every fetch is answered or fails in the end
SpecHookFair == SpecHook /\ WF_vars(RequestCompletes)

hasNoDuplicates(list) ==
  \A i, j \in DOMAIN list : i # j => idOf(list[i]) # idOf(list[j])

\* C25: whatever refresh and loadMore calls are made and however the server
\* answers, no two entries of the models list have the same owner/name
C25_ModelsListHasNoDuplicates == hasNoDuplicates(hook.models)

\* C26: at most one request of the hook is in flight at any time, and the
\* in-flight flag is set exactly while one is: a loadMore or refresh invoked
\* in between issues none, and every way a request ends clears the flag
C26_OneRequestInFlight ==
  /\ Len(hook.requests) <= 1
  /\ hook.isRequestInFlight <=> hook.requests # <<>>

\* a loadMore is in flight and the effect's refresh for the other URL has
\* been turned away
C26_Witness ==
  /\ hook.isRequestInFlight
  /\ Len(hook.requests) = 1
  /\ hook.requests[1].by = "loadMore"
  /\ hook.requests[1].url # hook.fetchUrl

\* a request is in flight that was issued for another URL than the current
staleRequestInFlight ==
  \E i \in DOMAIN hook.requests : hook.requests[i].url # hook.fetchUrl

\* C27: once fetchUrl has changed with a request in flight, a first page
\* for the new URL is answered in the end
C27_NewUrlIsLoadedInTheEnd ==
  staleRequestInFlight ~> (hook.answeredUrl = <<hook.fetchUrl>>)

(***************************************************************************)
(* The model page: creating a prediction and polling its status            *)
(***************************************************************************)
MaxSubmits == 2

PredictionStatuses == {"starting", "processing", "succeeded", "failed", "canceled"}

\* data.status === 'starting' || data.status === 'processing'
isRunning(status) == status \in {"starting", "processing"}

\* the states a prediction at the API moves to
laterStatuses(status) ==
  CASE status = "starting" -> {"processing", "failed", "canceled"}
    [] status = "processing" -> {"succeeded", "failed", "canceled"}
    [] OTHER -> {}

\* handleSubmit up to its await
submitCall(p) ==
  [p EXCEPT !.isSubmitting = TRUE, !.prediction = <<>>,
            !.submits = @ + 1, !.creating = @ + 1]

InitPolling ==
  /\ ParserIdle
  /\ PageInit
  /\ RankInit
  /\ RetryInit
  /\ HookIdle
  /\ StoreIdle
  /\ PollingIdle

\* the form is submitted; its button is disabled while isSubmitting
SubmitPrediction ==
  /\ ~polling.isSubmitting
  /\ polling.submits < MaxSubmits
  /\ polling' = submitCall(polling)
  /\ UNCHANGED <<parserVars, pageVars, rankVars, retryVars, hookVars, storeVars>>

\* the output's run-again button, shown once the displayed prediction has
\* ended, calls handleSubmit with its input
HandleRerun ==
  /\ polling.prediction # <<>>
  /\ ~isRunning(polling.prediction[1].status)
  /\ polling.submits < MaxSubmits
  /\ polling' = submitCall(polling)
  /\ UNCHANGED <<parserVars, pageVars, rankVars, retryVars, hookVars, storeVars>>

\* the POST is answered: on success the new prediction is displayed and
\* pollPrediction sends its first GET; on failure the error is set
PredictionCreated ==
  /\ polling.creating > 0
  /\ \E ok \in BOOLEAN :
       LET id   == Len(polling.remote) + 1
           done == [polling EXCEPT !.isSubmitting = FALSE, !.creating = @ - 1]
       IN  polling' =
             IF ok
             THEN [done EXCEPT !.remote = Append(@, "starting"),
                               !.known = Append(@, "starting"),
                               !.prediction = <<[id |-> id, status |-> "starting"]>>,
                               !.latest = id,
                               !.polls = @ \cup {id}]
             ELSE [done EXCEPT !.error = <<"Failed to create prediction">>]
  /\ UNCHANGED <<parserVars, pageVars, rankVars, retryVars, hookVars, storeVars>>

\* a prediction moves on at the API
RemoteProgress ==
  /\ \E id \in DOMAIN polling.remote :
       \E status \in laterStatuses(polling.remote[id]) :
         polling' = [polling EXCEPT !.remote[id] = status]
  /\ UNCHANGED <<parserVars, pageVars, rankVars, retryVars, hookVars, storeVars>>

\* a GET of poll is answered: with the prediction, with a non-OK status, or
\* not at all
PollAnswered ==
  /\ \E id \in polling.polls, answer \in {"ok", "notOk", "failed"} :
       LET done   == [polling EXCEPT !.polls = @ \ {id}]
           status == polling.remote[id]
       IN  polling' =
             IF answer = "ok"
             THEN [done EXCEPT
                     !.prediction = <<[id |-> id, status |-> status]>>,
                     !.known[id] = status,
                     !.timers = IF isRunning(status) THEN @ \cup {id} ELSE @]
             ELSE done
  /\ UNCHANGED <<parserVars, pageVars, rankVars, retryVars, hookVars, storeVars>>

\* setTimeout(poll, 1000) fires
PollTimerFires ==
  /\ \E id \in polling.timers :
       polling' = [polling EXCEPT !.timers = @ \ {id}, !.polls = @ \cup {id}]
  /\ UNCHANGED <<parserVars, pageVars, rankVars, retryVars, hookVars, storeVars>>

NextPolling ==
  \/ SubmitPrediction
  \/ HandleRerun
  \/ PredictionCreated
  \/ RemoteProgress
  \/ PollAnswered
  \/ PollTimerFires

SpecPolling == InitPolling /\ [][NextPolling]_vars

\* a GET for the prediction is under way or due
isPolled(id) == id \in polling.polls \cup polling.timers

\* C21: a prediction whose last known status is 'starting' or 'processing'
\* is polled, whatever became of the polls before, and one whose known
\* status is another is polled no more
C21_PolledUntilTerminal ==
  \A id \in DOMAIN polling.known :
    isRunning(polling.known[id]) <=> isPolled(id)

\* C29: the prediction on display is the one created last
C29_LatestPredictionDisplayed ==
  polling.prediction # <<>> => polling.prediction[1].id = polling.latest

(***************************************************************************)
(* The prediction store and the handlers of /api/predictions               *)
(***************************************************************************)
MaxStored == 2

\* the most GET handlers followed at a time
MaxHandlers == 2

\* the localId generateLocalId gives the k-th stored prediction, and the id
\* the API gave it
localIdOf(k) == <<"local", k>>

replicateIdOf(k) == <<"replicate", k>>

\* predictions.get(localId) || null
getStoredPrediction(preds, localId) ==
  IF localId \in DOMAIN preds THEN <<preds[localId]>> ELSE <<>>

\* the first entry of the Map with that id, or null
getStoredPredictionByReplicateId(preds, replicateId) ==
  LET found == {l \in DOMAIN preds : preds[l].id = replicateId}
  IN  IF found = {} THEN <<>> ELSE <<preds[CHOOSE l \in found : TRUE]>>

updateStoredPrediction_Upsert(preds, localId, update) ==
  (localId :> (IF localId \in DOMAIN preds
               THEN Spread(preds[localId], update)
               ELSE update)) @@ preds

\* updateStoredPrediction: null, and no write, when the entry is gone
updateStoredPrediction(preds, localId, update) ==
  IF localId \notin DOMAIN preds THEN preds
  ELSE [preds EXCEPT ![localId] = Spread(@, update)]

\* predictions.delete(localId)
deleteStoredPrediction(preds, localId) == Unset(preds, {localId})

\* the ids a request can name: the local and the API id of every prediction
\* made so far
RequestIds(st) ==
  {localIdOf(k) : k \in 1..st.created} \cup {replicateIdOf(k) : k \in 1..st.created}

\* getPrediction(replicateId): the prediction as the API has it, or a
\* thrown error where the API knows no such id
getPrediction(st, replicateId) ==
  LET known == {k \in 1..st.created : replicateIdOf(k) = replicateId}
  IN  IF known = {} THEN <<>>
      ELSE <<[status |-> st.remote[CHOOSE k \in known : TRUE]]>>

InitStore ==
  /\ ParserIdle
  /\ PageInit
  /\ RankInit
  /\ RetryInit
  /\ HookIdle
  /\ PollingIdle
  /\ StoreIdle

\* POST /api/predictions: the prediction is created at the API and stored
CreateStored ==
  /\ store.created < MaxStored
  /\ LET k == store.created + 1
     IN  store' = [store EXCEPT
                     !.created = k,
                     !.remote = Append(@, "starting"),
                     !.predictions =
                       (localIdOf(k) :> [id |-> replicateIdOf(k), localId |-> localIdOf(k),
                                         status |-> "starting"]) @@ @]
  /\ UNCHANGED <<parserVars, pageVars, rankVars, retryVars, hookVars, pollVars>>

\* a prediction moves on at the API
ReplicateProgress ==
  /\ \E k \in DOMAIN store.remote :
       \E status \in laterStatuses(store.remote[k]) :
         store' = [store EXCEPT !.remote[k] = status]
  /\ UNCHANGED <<parserVars, pageVars, rankVars, retryVars, hookVars, pollVars>>

\* GET /api/predictions/{id} up to its await of getPrediction
GetStarts ==
  /\ Cardinality(store.handlers) < MaxHandlers
  /\ \E id \in RequestIds(store) :
       LET byLocal == getStoredPrediction(store.predictions, id)
           stored  == IF byLocal # <<>> THEN byLocal
                      ELSE getStoredPredictionByReplicateId(store.predictions, id)
           handler == [stored |-> stored,
                       replicateId |-> IF stored # <<>> THEN stored[1].id ELSE id]
       IN  /\ handler \notin store.handlers
           /\ store' = [store EXCEPT !.handlers = @ \cup {handler}]
  /\ UNCHANGED <<parserVars, pageVars, rankVars, retryVars, hookVars, pollVars>>

\* getPrediction is answered or throws, and the handler runs to its end
GetCompletes ==
  /\ \E handler \in store.handlers, fails \in BOOLEAN :
       LET prediction == IF fails THEN <<>> ELSE getPrediction(store, handler.replicateId)
           rest == [store EXCEPT !.handlers = @ \ {handler}]
       IN  store' =
             IF prediction # <<>> /\ handler.stored # <<>>
             THEN LET localId == handler.stored[1].localId
                  IN  [rest EXCEPT
                         !.predictions =
                           updateStoredPrediction(@, localId, [status |-> prediction[1].status]),
                         !.lateUpdates =
                           IF localId \in store.deleted THEN @ \cup {localId} ELSE @]
             ELSE rest
  /\ UNCHANGED <<parserVars, pageVars, rankVars, retryVars, hookVars, pollVars>>

\* DELETE /api/predictions/{id}: by local id first, then by API id
DeletePrediction ==
  /\ \E id \in RequestIds(store) :
       LET byApiId == getStoredPredictionByReplicateId(store.predictions, id)
           localId == IF id \in DOMAIN store.predictions THEN <<id>>
                      ELSE IF byApiId # <<>> THEN <<byApiId[1].localId>>
                      ELSE <<>>
       IN  /\ localId # <<>>
           /\ store' = [store EXCEPT
                          !.predictions = deleteStoredPrediction(@, localId[1]),
                          !.deleted = @ \cup {localId[1]}]
  /\ UNCHANGED <<parserVars, pageVars, rankVars, retryVars, hookVars, pollVars>>

\* DELETE /api/predictions: clearAllPredictions()
ClearAll ==
  /\ store.predictions # EmptyObject
  /\ store' = [store EXCEPT !.predictions = EmptyObject,
                            !.deleted = @ \cup DOMAIN store.predictions]
  /\ UNCHANGED <<parserVars, pageVars, rankVars, retryVars, hookVars, pollVars>>

NextStore ==
  \/ CreateStored
  \/ ReplicateProgress
  \/ GetStarts
  \/ GetCompletes
  \/ DeletePrediction
  \/ ClearAll

SpecStore == InitStore /\ [][NextStore]_vars

\* C30: a deleted prediction has no entry in the store, whatever GET
\* handlers for it were under way when it was deleted and have ended since
C30_DeletedStaysDeleted ==
  \A localId \in store.deleted : localId \notin DOMAIN store.predictions

\* a GET handler that had read the entry before it was deleted has got its
\* answer and called updateStoredPrediction for it
C30_Witness ==
  \E localId \in store.lateUpdates :
    /\ localId \in store.deleted
    /\ \A handler \in store.handlers : handler.stored = <<>>

====
